---- MODULE Spec2Model ----
(***************************************************************************)
(* Model of the snapshot persistence pipeline of chat_history_test:        *)
(*   - calculateOptimalChunkSize / chunkMessages                           *)
(*   - class WorkerPool and the inline save worker it creates              *)
(*   - ensureProcessingMetadata, cacheDecryptedSnapshotMultiWorker,        *)
(*     decryptAndStreamToIndexedDBMultiWorker                              *)
(*     (src/lib/decrypt-snapshot-streaming.ts)                             *)
(*   - handleBulkLoadAll and stageSnapshotToStorage (src/app/page.tsx)     *)
(*                                                                         *)
(* The decrypted message array is represented by its index range: a slice  *)
(* messages.slice(a, b) is the pair <<a, b>> (half open, 0-based), so that *)
(* the real chunk sizes of the source can be used.                         *)
(***************************************************************************)
EXTENDS Integers, Sequences, FiniteSets, TLC

\* ------------------------------------------------------------------------
\* Bounds of the model
\* ------------------------------------------------------------------------
MaxWorkers == 2        \* CONFIG.WORKER_COUNT ranges over 1..MaxWorkers
MaxErrorEvents == 1    \* worker 'error' events delivered to the pool per run
MaxFailures == 3       \* failed write transactions per run
MaxChunkW == 8         \* SpecChunk: worker counts 1..MaxChunkW
MaxSnapshots == 2      \* SpecBulk: snapshots in the list
MaxBatch == 2          \* SpecBatch: records of a batch, and record ids 1..MaxBatch
MaxPoolChunks == 3     \* SpecPool: chunks submitted to the pool
MaxItems == 2          \* SpecMsgpack: items of an array, entries of a map
MaxStrLen == 2         \* SpecMsgpack: characters of a string
MaxCalls == 3          \* SpecRewrite: calls of saveMessagesBatch for one batch
MaxInvocations == 2    \* SpecMemory: calls of decryptAndStreamToIndexedDBMemoryOptimized

\* ------------------------------------------------------------------------
\* Program constants
\* ------------------------------------------------------------------------
CHUNK_SIZE_SMALL == 1000
CHUNK_SIZE_MEDIUM == 2000
CHUNK_SIZE_LARGE == 3000
CHUNK_SIZE_XLARGE == 5000
SMALL_LIMIT == 4000
MEDIUM_LIMIT == 16000
LARGE_LIMIT == 64000
minChunksPerWorker == 2
MAX_RETRIES == 3
PROGRESS_REPORT_INTERVAL == 100
WORKER_COUNT == 4
PREFETCH_SIZE_LIMIT_MB == 25
BATCH_SIZE_SMALL == 1000
BATCH_SIZE_MEDIUM == 2000
BATCH_SIZE_LARGE == 3000
BATCH_SIZE_XLARGE == 5000
MAX_CONCURRENT_BATCHES == 3
DEFAULT_SIZE_MB == 5

Min(a, b) == IF a < b THEN a ELSE b
Max(a, b) == IF a > b THEN a ELSE b
CeilDiv(a, b) == (a + b - 1) \div b

\* the length of a slice <<lo, hi>>
SliceLen(s) == s[2] - s[1]

\* ------------------------------------------------------------------------
\* calculateOptimalChunkSize / chunkMessages
\* ------------------------------------------------------------------------
calculateOptimalChunkSize(totalMessages, wc) ==
  LET targetTotalChunks == wc * minChunksPerWorker
      calculatedSize == CeilDiv(totalMessages, targetTotalChunks)
  IN  IF totalMessages < SMALL_LIMIT THEN CHUNK_SIZE_SMALL
      ELSE IF totalMessages < MEDIUM_LIMIT THEN CHUNK_SIZE_MEDIUM
      ELSE IF totalMessages < LARGE_LIMIT THEN CHUNK_SIZE_LARGE
      ELSE Max(CHUNK_SIZE_XLARGE, calculatedSize)

\* mutant of chunkLoop: the last chunk is not cut at the end of the array
RECURSIVE chunkLoop_NoClamp(_, _, _, _)
chunkLoop_NoClamp(base, i, len, chunkSize) ==
  IF i < len
    THEN <<<<base + i, base + i + chunkSize>>>>
           \o chunkLoop_NoClamp(base, i + chunkSize, len, chunkSize)
    ELSE <<>>

RECURSIVE chunkLoop(_, _, _, _)
chunkLoop(base, i, len, chunkSize) ==
  IF i < len
    THEN <<<<base + i, base + Min(i + chunkSize, len)>>>>
           \o chunkLoop(base, i + chunkSize, len, chunkSize)
    ELSE <<>>

\* chunkMessages(messages, chunkSize) for messages = the slice `slice`
chunkMessages(slice, chunkSize) == chunkLoop(slice[1], 0, SliceLen(slice), chunkSize)

\* ------------------------------------------------------------------------
\* State
\* ------------------------------------------------------------------------
VARIABLES
  \* --- inputs of one invocation of the pipeline
  entry,            \* "single": decryptAndStreamToIndexedDBMultiWorker,
                    \* "cache": cacheDecryptedSnapshotMultiWorker without options.metadata
  decryptOutcome,   \* what decryptSnapshot does: "ok", "throws" or "badformat"
  msgLen,           \* decryptedData.messages.length
  workerCount,      \* CONFIG.WORKER_COUNT
  startRow,         \* the metadata row of the snapshot when the invocation starts
  \* --- the caller's control state
  pc,               \* position in the pipeline
  thrown,           \* the error being propagated ("" when none)
  \* --- Record Store
  metaRow,          \* the durable metadata row of the snapshot (NoMeta when absent)
  messagesStore,    \* committed message slices <<lo, hi>> of the snapshot
  metaWrites,       \* number of saveMetadata calls of this invocation
  \* --- locals of the pipeline
  metadata,         \* the in-memory metadata object
  resumeFrom,
  chunks,           \* chunkMessages(messagesToInsert, chunkSize)
  chunkProgress,    \* Map chunkIndex -> saved (0 when no entry)
  totalProcessed,
  events,           \* [count, last]: progress events emitted, and the last one
  decryptCalls,     \* number of decryptSnapshot calls
  \* --- WorkerPool
  poolState,        \* "none", "alive", "terminated"
  availableWorkers,
  taskQueue,
  posted,           \* chunkIndex -> worker the SAVE_BATCH went to (-1: not yet)
  answered,         \* chunkIndex -> terminal message the pool handled ("none" if not)
  errorEvents,      \* number of worker 'error' events delivered
  \* --- save workers and channels
  wInbox,           \* worker -> SAVE_BATCH messages not yet received (chunk indices)
  wTask,            \* chunkIndex -> the onmessage invocation saving that chunk
  mInbox,           \* worker -> messages posted to the main thread, FIFO
  txFailures        \* number of write transactions that failed in this run

inputVars == <<entry, decryptOutcome, msgLen, workerCount, startRow>>
storeVars == <<metaRow, messagesStore, metaWrites>>
localVars == <<metadata, resumeFrom, chunks, decryptCalls>>
progressVars == <<chunkProgress, totalProcessed, events>>
poolVars == <<poolState, availableWorkers, taskQueue, posted, answered, errorEvents>>
workerVars == <<wInbox, wTask, mInbox, txFailures>>
pipeVars == <<inputVars, pc, thrown, storeVars, localVars, progressVars, poolVars, workerVars>>

VARIABLES
  \* --- the bulk run (handleBulkLoadAll); a snapshot's id is its place in the list
  allSnapshots,         \* the list fetchAllSnapshotsList returns
  startRows,            \* id -> the metadata row when the run starts
  rows,                 \* id -> the durable metadata row
  recordStore,          \* id -> committed message slices
  stagingStore,         \* id -> the staged decrypted data (NoData when none)
  bulkStatuses,         \* id -> status shown for the snapshot
  bpc,                  \* position of handleBulkLoadAll
  stagedSnapshotId,     \* the snapshot the consumer loop is working on (0: none)
  stagedSnapshotQueue,
  waitingResolvers,     \* number of parked getNextStagedSnapshotId calls
  nextToSchedule,
  inFlightMb,
  activePreparations,   \* the keys of the Map
  prep,                 \* id -> position of its stageSnapshotToStorage call
  downloads,            \* id -> downloads of the snapshot file started
  decrypts              \* id -> decryptSnapshot calls

bulkInputs == <<allSnapshots, startRows>>
bulkStores == <<rows, recordStore, stagingStore>>
consumerVars == <<bpc, stagedSnapshotId, waitingResolvers>>
schedVars == <<nextToSchedule, inFlightMb, activePreparations>>
prepVars == <<prep, downloads, decrypts>>
bulkVars == <<bulkInputs, bulkStores, bulkStatuses, consumerVars, stagedSnapshotQueue,
              schedVars, prepVars>>

VARIABLES
  \* --- one call of saveMessagesBatch (IndexedDBManager and the inline worker)
  batchInput,           \* [variant, snapshotId, messages]: the call
  messagesDb,           \* the committed records of the 'messages' object store
  txn,                  \* the transaction of the call, its requests and its promise
  \* --- one call of decryptSnapshot
  fileSource,           \* the bytes of the file and what the key operations do
  dpc,                  \* position of the call
  dlog,                 \* the parse, unwrap and decrypt steps taken, in order
  dresult,              \* what the call returned or threw
  \* --- one call of decodeMsgpack
  mpInput,              \* [value, bytes]: a value and its MessagePack encoding
  mpOutput              \* the result of decodeMsgpack(bytes, 0)

batchVars == <<batchInput, messagesDb, txn>>
decVars == <<fileSource, dpc, dlog, dresult>>
mpVars == <<mpInput, mpOutput>>

VARIABLES
  \* --- the concurrent-batch variants (decryptAndStreamToIndexedDBOptimized and
  \*     decryptAndStreamToIndexedDBMemoryOptimized)
  config,               \* the mutable fields of CONFIG the variants read and write
  activeIndex,          \* processBatchQueue: the first batch of the current round
  invocations           \* the calls of decryptAndStreamToIndexedDBMemoryOptimized

tuneVars == <<config, activeIndex, invocations>>
libVars == <<batchVars, decVars, mpVars, tuneVars>>

vars == <<pipeVars, bulkVars, libVars>>

NoMeta == [status |-> "absent"]
Unset == 0 - 1

Workers == 0 .. (workerCount - 1)
ChunkIdx == 0 .. (Len(chunks) - 1)
chunkOf(c) == chunks[c + 1]

\* ------------------------------------------------------------------------
\* The inline save worker (the workerCode string of initializeWorkers)
\* ------------------------------------------------------------------------
IdleTask == [phase |-> "none", attempt |-> 0, failed |-> 0, savedCount |-> 0]

Msg(t, c, s, tot) == [type |-> t, chunkIndex |-> c, saved |-> s, total |-> tot]

\* the completed counts at which request.onsuccess calls onProgress, ascending,
\* when `completed` of the `total` puts succeed
SuccessCallbacks(total, completed) ==
  LET m == completed \div PROGRESS_REPORT_INTERVAL
      base == [i \in 1 .. m |-> i * PROGRESS_REPORT_INTERVAL]
  IN  IF completed = total /\ total % PROGRESS_REPORT_INTERVAL # 0
        THEN Append(base, total) ELSE base

\* transaction.oncomplete: one more call when not every put succeeded
CompleteCallbacks(total, completed) ==
  SuccessCallbacks(total, completed)
    \o (IF completed # total THEN <<completed>> ELSE <<>>)

\* mutant: only the multiples of 100 are posted
PostsProgress_IntervalOnly(saved, total) == saved % 100 = 0

\* the onProgress closure of self.onmessage posts PROGRESS for these calls only
PostsProgress(saved, total) == saved % 100 = 0 \/ saved = total

RECURSIVE ProgressMessages(_, _, _)
ProgressMessages(c, calls, total) ==
  IF calls = <<>> THEN <<>>
  ELSE (IF PostsProgress(Head(calls), total)
          THEN <<Msg("PROGRESS", c, Head(calls), total)>> ELSE <<>>)
       \o ProgressMessages(c, Tail(calls), total)

LastOr(calls, dflt) == IF calls = <<>> THEN dflt ELSE calls[Len(calls)]

\* mutant: the loop bound off by one (attempt <= MAX_RETRIES + 1)
RetriesExhausted_OneMore(attempt) == attempt = MAX_RETRIES + 1

\* saveMessagesBatchWithRetry: the attempt that just failed was the last one
RetriesExhausted(attempt) == attempt = MAX_RETRIES

\* numbers of successful puts the model lets a transaction have.  It commits
\* when every put has succeeded: the error event of a failed put is cancelled
\* by no handler, so it reaches transaction.onerror and the transaction is
\* aborted (PutFails below).  It fails after none of them or after a count that
\* is not a multiple of the report interval
PartialPuts(total) == {k \in {150} : k < total}
CommitCounts(total) == {total}
FailCounts(total) == {0} \cup PartialPuts(total)

\* self.onmessage: a SAVE_BATCH message is received and the first attempt starts
WorkerOnMessage(w) ==
  /\ UNCHANGED <<bulkVars, libVars>>
  /\ poolState = "alive"
  /\ wInbox[w] # <<>>
  /\ LET c == Head(wInbox[w])
     IN  /\ wInbox' = [wInbox EXCEPT ![w] = Tail(@)]
         /\ wTask' = [wTask EXCEPT ![c] =
                        [phase |-> "saving", attempt |-> 1, failed |-> 0, savedCount |-> 0]]
  /\ UNCHANGED <<inputVars, pc, thrown, storeVars, localVars, progressVars, poolVars, mInbox,
                 txFailures>>

\* saveMessagesBatch: the transaction commits after `completed` puts succeeded;
\* the worker then posts COMPLETE
TransactionComplete(c, completed) ==
  /\ UNCHANGED <<bulkVars, libVars>>
  /\ poolState = "alive"
  /\ wTask[c].phase = "saving"
  /\ LET total == SliceLen(chunkOf(c))
         calls == CompleteCallbacks(total, completed)
         saved == LastOr(calls, wTask[c].savedCount)
         w == posted[c]
     IN  /\ completed \in CommitCounts(total)
         /\ messagesStore' = IF completed > 0
              THEN messagesStore \cup {<<chunkOf(c)[1], chunkOf(c)[1] + completed>>}
              ELSE messagesStore
         /\ wTask' = [wTask EXCEPT ![c] =
                        [@ EXCEPT !.phase = "completed", !.savedCount = saved]]
         /\ mInbox' = [mInbox EXCEPT ![w] =
                        @ \o ProgressMessages(c, calls, total)
                          \o <<Msg("COMPLETE", c, saved, total)>>]
  /\ UNCHANGED <<inputVars, pc, thrown, metaRow, metaWrites, localVars, progressVars,
                 poolVars, wInbox, txFailures>>

\* mutant: the failure of every attempt is reported to the pool
failureMessages_EveryAttempt(c, last, total) == <<Msg("ERROR", c, 0, total)>>

\* the catch block of self.onmessage posts ERROR when saveMessagesBatchWithRetry
\* has rethrown, which it does for the last attempt only
failureMessages(c, last, total) == IF last THEN <<Msg("ERROR", c, 0, total)>> ELSE <<>>

\* saveMessagesBatch rejects (transaction error or abort) after `completed` puts
\* succeeded; saveMessagesBatchWithRetry waits and starts the next attempt, or
\* rethrows after the last one and the worker posts ERROR
TransactionFail(c, completed) ==
  /\ UNCHANGED <<bulkVars, libVars>>
  /\ poolState = "alive"
  /\ wTask[c].phase = "saving"
  /\ LET total == SliceLen(chunkOf(c))
         calls == SuccessCallbacks(total, completed)
         saved == LastOr(calls, wTask[c].savedCount)
         w == posted[c]
         last == RetriesExhausted(wTask[c].attempt)
     IN  /\ completed \in FailCounts(total)
         /\ txFailures < MaxFailures
         /\ txFailures' = txFailures + 1
         /\ wTask' = [wTask EXCEPT ![c] =
                        [phase |-> IF last THEN "errored" ELSE "saving",
                         attempt |-> IF last THEN @.attempt ELSE @.attempt + 1,
                         failed |-> @.failed + 1,
                         savedCount |-> saved]]
         /\ mInbox' = [mInbox EXCEPT ![w] =
                        @ \o ProgressMessages(c, calls, total)
                          \o failureMessages(c, last, total)]
  /\ UNCHANGED <<inputVars, pc, thrown, storeVars, localVars, progressVars, poolVars, wInbox>>

\* ------------------------------------------------------------------------
\* class WorkerPool
\* ------------------------------------------------------------------------
\* The queue state of the pool: tq = taskQueue, aw = availableWorkers and
\* sent = the SAVE_BATCH messages posted so far in this step, as <<worker, chunk>>
PoolSt(tq, aw, sent) == [tq |-> tq, aw |-> aw, sent |-> sent]

\* mutant: the newest task of the queue is taken
processNextTask_Newest(st) ==
  IF st.tq = <<>> \/ st.aw = <<>> THEN st
  ELSE PoolSt(SubSeq(st.tq, 1, Len(st.tq) - 1), Tail(st.aw),
              Append(st.sent, <<Head(st.aw), st.tq[Len(st.tq)]>>))

processNextTask(st) ==
  IF st.tq = <<>> \/ st.aw = <<>> THEN st
  ELSE PoolSt(Tail(st.tq), Tail(st.aw), Append(st.sent, <<Head(st.aw), Head(st.tq)>>))

processChunk(st, chunkIndex) ==
  processNextTask(PoolSt(Append(st.tq, chunkIndex), st.aw, st.sent))

\* chunks.map((chunk, index) => workerPool.processChunk(chunk, index))
RECURSIVE SubmitChunks(_, _, _)
SubmitChunks(i, n, st) ==
  IF i >= n THEN st ELSE SubmitChunks(i + 1, n, processChunk(st, i))

\* mutant: the worker index is pushed back and processNextTask is not called
releaseWorker_NoDispatch(st, workerIndex) ==
  PoolSt(st.tq, Append(st.aw, workerIndex), st.sent)

\* a worker index is pushed back (COMPLETE, ERROR, onerror), then processNextTask
releaseWorker(st, workerIndex) ==
  processNextTask(PoolSt(st.tq, Append(st.aw, workerIndex), st.sent))

\* mutant: the ERROR branch forgets the worker
handleTerminal_ErrorKeepsWorker(st, workerIndex, type) ==
  IF type = "ERROR" THEN st ELSE releaseWorker(st, workerIndex)

\* handleWorkerMessage, branches COMPLETE and ERROR: both release the worker
handleTerminal(st, workerIndex, type) ==
  IF type = "COMPLETE" THEN releaseWorker(st, workerIndex)
  ELSE IF type = "ERROR" THEN releaseWorker(st, workerIndex)
  ELSE st

RECURSIVE Deliver(_, _)
Deliver(inbox, sent) ==
  IF sent = <<>> THEN inbox
  ELSE Deliver([inbox EXCEPT ![Head(sent)[1]] = Append(@, Head(sent)[2])], Tail(sent))

RECURSIVE MarkPosted(_, _)
MarkPosted(p, sent) ==
  IF sent = <<>> THEN p
  ELSE MarkPosted([p EXCEPT ![Head(sent)[2]] = Head(sent)[1]], Tail(sent))

\* the effect of a pool step that ended in queue state st
PoolBecomes(st) ==
  /\ taskQueue' = st.tq
  /\ availableWorkers' = st.aw
  /\ posted' = MarkPosted(posted, st.sent)
  /\ wInbox' = Deliver(wInbox, st.sent)

CurrentPool == PoolSt(taskQueue, availableWorkers, <<>>)

\* worker.terminate() for every worker, and the three lists emptied
PoolTerminated ==
  /\ poolState' = IF poolState = "alive" THEN "terminated" ELSE poolState
  /\ availableWorkers' = <<>>
  /\ taskQueue' = <<>>

\* ------------------------------------------------------------------------
\* progress events
\* ------------------------------------------------------------------------
Event(stage, progress, processed, total) ==
  [stage |-> stage, progress |-> progress, processedMessages |-> processed,
   totalMessages |-> total]

NoEvent == Event("none", 0, Unset, Unset)

Emit(ev, e) == [count |-> ev.count + 1, last |-> e]

\* 65 + Math.floor(Math.min(totalProcessed / denominator, 1) * 30)
SavingProgress(processed, denominator) ==
  IF processed >= denominator THEN 95 ELSE 65 + ((processed * 30) \div denominator)

\* mutant: the count reported before for the chunk is not taken off
progressDelta_NoPrev(saved, prevSaved) == saved

\* const delta = saved - prevSaved
progressDelta(saved, prevSaved) == saved - prevSaved

\* mutant: the count starts at zero
initialTotalProcessed_Zero(from) == 0

\* let totalProcessed = resumeFrom
initialTotalProcessed(from) == from

\* the updateProgress closure of cacheDecryptedSnapshotMultiWorker
updateProgress(chunkIndex, saved, total) ==
  LET prevSaved == chunkProgress[chunkIndex]
      delta == progressDelta(saved, prevSaved)
      newTotal == totalProcessed + delta
      denominator == IF msgLen # 0 THEN msgLen
                     ELSE IF msgLen - resumeFrom # 0 THEN msgLen - resumeFrom ELSE 1
  IN  /\ chunkProgress' = [chunkProgress EXCEPT ![chunkIndex] = saved]
      /\ totalProcessed' = newTotal
      /\ events' = Emit(events, Event("saving", SavingProgress(newTotal, denominator),
                                      newTotal, denominator))

\* WorkerPool.handleWorkerMessage(workerIndex, data) for the oldest message of
\* worker w
HandleWorkerMessage(w) ==
  /\ UNCHANGED <<bulkVars, libVars>>
  /\ poolState = "alive"
  /\ mInbox[w] # <<>>
  /\ LET data == Head(mInbox[w])
     IN  /\ mInbox' = [mInbox EXCEPT ![w] = Tail(@)]
         /\ IF data.type = "PROGRESS"
              THEN /\ updateProgress(data.chunkIndex, data.saved, data.total)
                   /\ UNCHANGED <<taskQueue, availableWorkers, posted, wInbox, answered>>
              ELSE /\ PoolBecomes(handleTerminal(CurrentPool, w, data.type))
                   /\ answered' = [answered EXCEPT ![data.chunkIndex] = data.type]
                   /\ UNCHANGED progressVars
  /\ UNCHANGED <<inputVars, pc, thrown, storeVars, localVars, poolState, errorEvents, wTask,
                 txFailures>>

\* WorkerPool.handleWorkerError(workerIndex, error): the 'error' event of worker w
\* (an uncaught exception in the worker's script)
HandleWorkerError(w) ==
  /\ UNCHANGED <<bulkVars, libVars>>
  /\ poolState = "alive"
  /\ errorEvents < MaxErrorEvents
  /\ errorEvents' = errorEvents + 1
  /\ PoolBecomes(releaseWorker(CurrentPool, w))
  /\ UNCHANGED <<inputVars, pc, thrown, storeVars, localVars, progressVars, poolState,
                 answered, wTask, mInbox, txFailures>>

\* ------------------------------------------------------------------------
\* Metadata rows.  Only the fields the pipeline decides on are kept:
\* status, processedMessages, totalMessages (Unset when undefined), error.
\* ------------------------------------------------------------------------
Meta(status, processed, total, error) ==
  [status |-> status, processedMessages |-> processed, totalMessages |-> total,
   error |-> error]

\* mutant: a fresh row is saved whatever the stored one holds
processingMetadata_Fresh(existing) == Meta("processing", 0, Unset, "")

\* ensureProcessingMetadata: the row it saves when it does not skip
processingMetadata(existing) ==
  IF existing.status # "absent"
    THEN [existing EXCEPT !.status = "processing", !.error = ""]
    ELSE Meta("processing", 0, Unset, "")

\* mutant: the completed check is dropped
skipCompleted_Never(existing) == FALSE

\* ensureProcessingMetadata(...).skip
skipCompleted(existing) == existing.status = "completed"

\* mutant: the catch block records the message but not the status
errorMetadata_StatusKept(existing, message) == [existing EXCEPT !.error = message]

\* the row the catch blocks save: the stored row with status and error replaced
errorMetadata(existing, message) ==
  [existing EXCEPT !.status = "error", !.error = message]

\* metadata.status = 'completed'; metadata.processedMessages = totalMessages
completedMetadata(m, totalMessages) ==
  [m EXCEPT !.status = "completed", !.processedMessages = totalMessages]

\* mutant: the resume point is ignored
computeResumeFrom_Zero(m, totalMessages) == 0

\* Math.min(metadata.processedMessages ?? 0, totalMessages)
computeResumeFrom(m, totalMessages) == Min(m.processedMessages, totalMessages)

saveMetadata(m) ==
  /\ metaRow' = m
  /\ metaWrites' = metaWrites + 1

\* mutant: the skip event reports the counts of an empty snapshot
SkipEvent_Zero(m) == Event("completed", 100, 0, 0)

\* the progress event of the skip branch
SkipEvent(m) == Event("completed", 100, m.processedMessages, m.totalMessages)

NoPool == /\ UNCHANGED <<poolVars, workerVars>>

\* ------------------------------------------------------------------------
\* decryptAndStreamToIndexedDBMultiWorker
\* ------------------------------------------------------------------------
\* lines 1144-1164: ensureProcessingMetadata, skip or announce the download
SingleStart ==
  /\ UNCHANGED <<bulkVars, libVars>>
  /\ pc = "start" /\ entry = "single"
  /\ IF skipCompleted(metaRow)
       THEN /\ events' = Emit(events, SkipEvent(metaRow))
            /\ pc' = "returned"
            /\ UNCHANGED <<storeVars, metadata>>
       ELSE /\ metadata' = processingMetadata(metaRow)
            /\ saveMetadata(processingMetadata(metaRow))
            /\ events' = Emit(events, Event("downloading", 0, Unset, Unset))
            /\ pc' = "decrypt"
            /\ UNCHANGED messagesStore
  /\ UNCHANGED <<inputVars, thrown, resumeFrom, chunks, decryptCalls, chunkProgress,
                 totalProcessed>>
  /\ NoPool

\* the progress events of the status callback up to the point decryptSnapshot
\* fails or returns
DecryptEvents ==
  <<Event("downloading", 10, Unset, Unset)>>
  \o (IF decryptOutcome = "failDownload" THEN <<>>
      ELSE <<Event("decrypting", 30, Unset, Unset)>>
           \o (IF decryptOutcome = "failImport" THEN <<>>
               ELSE <<Event("decrypting", 50, Unset, Unset)>>))

DecryptThrows == decryptOutcome \in {"failDownload", "failImport", "failDecrypt"}

RECURSIVE EmitAll(_, _)
EmitAll(ev, es) == IF es = <<>> THEN ev ELSE EmitAll(Emit(ev, Head(es)), Tail(es))

\* lines 1166-1195: decryptSnapshot with its status callback, then 'processing'
SingleDecrypt ==
  /\ UNCHANGED <<bulkVars, libVars>>
  /\ pc = "decrypt"
  /\ decryptCalls' = decryptCalls + 1
  /\ IF DecryptThrows
       THEN /\ events' = EmitAll(events, DecryptEvents)
            /\ thrown' = decryptOutcome
            /\ pc' = "outerCatch"
       ELSE /\ events' = EmitAll(events,
                            DecryptEvents \o <<Event("processing", 60, Unset, Unset)>>)
            /\ pc' = "cacheBody"
            /\ UNCHANGED thrown
  /\ UNCHANGED <<inputVars, storeVars, metadata, resumeFrom, chunks, chunkProgress,
                 totalProcessed>>
  /\ NoPool

\* lines 1208-1226: the catch block of decryptAndStreamToIndexedDBMultiWorker
SingleCatch ==
  /\ UNCHANGED <<bulkVars, libVars>>
  /\ pc = "outerCatch"
  /\ IF metaRow.status # "absent"
       THEN saveMetadata(errorMetadata(metaRow, thrown))
       ELSE UNCHANGED <<metaRow, metaWrites>>
  /\ events' = Emit(events, Event("error", 0, Unset, Unset))
  /\ pc' = "rejected"
  /\ UNCHANGED <<inputVars, thrown, messagesStore, localVars, chunkProgress, totalProcessed>>
  /\ NoPool

\* ------------------------------------------------------------------------
\* cacheDecryptedSnapshotMultiWorker
\* ------------------------------------------------------------------------
\* lines 939-953, called without options.metadata: ensureProcessingMetadata
CacheStart ==
  /\ UNCHANGED <<bulkVars, libVars>>
  /\ pc = "start" /\ entry = "cache"
  /\ IF skipCompleted(metaRow)
       THEN /\ events' = Emit(events, SkipEvent(metaRow))
            /\ pc' = "returned"
            /\ UNCHANGED <<storeVars, metadata>>
       ELSE /\ metadata' = processingMetadata(metaRow)
            /\ saveMetadata(processingMetadata(metaRow))
            /\ pc' = "cacheBody"
            /\ UNCHANGED <<messagesStore, events>>
  /\ UNCHANGED <<inputVars, thrown, resumeFrom, chunks, decryptCalls, chunkProgress,
                 totalProcessed>>
  /\ NoPool

\* lines 955-1000: the format check, the empty snapshot, and the first save of
\* the metadata with totalMessages set
CacheBody ==
  /\ UNCHANGED <<bulkVars, libVars>>
  /\ pc = "cacheBody"
  /\ IF decryptOutcome = "badformat"
       THEN /\ thrown' = "Invalid snapshot format: missing messages array"
            /\ pc' = "innerCatch"
            /\ UNCHANGED <<storeVars, metadata, resumeFrom, events>>
       ELSE IF msgLen = 0
       THEN /\ metadata' = Meta("completed", 0, 0, metadata.error)
            /\ saveMetadata(Meta("completed", 0, 0, metadata.error))
            /\ events' = Emit(events, Event("completed", 100, 0, 0))
            /\ pc' = "returned"
            /\ UNCHANGED <<messagesStore, thrown, resumeFrom>>
       ELSE /\ resumeFrom' = computeResumeFrom(metadata, msgLen)
            /\ metadata' = [metadata EXCEPT !.totalMessages = msgLen]
            /\ saveMetadata([metadata EXCEPT !.totalMessages = msgLen])
            /\ pc' = "saved"
            /\ UNCHANGED <<messagesStore, thrown, events>>
  /\ UNCHANGED <<inputVars, chunks, decryptCalls, chunkProgress, totalProcessed>>
  /\ NoPool

\* messages.slice(resumeFrom)
messagesToInsert == <<resumeFrom, msgLen>>

\* lines 1002-1020: nothing left to insert
CacheAllCached ==
  /\ UNCHANGED <<bulkVars, libVars>>
  /\ pc = "saved"
  /\ SliceLen(messagesToInsert) = 0
  /\ metadata' = completedMetadata(metadata, msgLen)
  /\ saveMetadata(completedMetadata(metadata, msgLen))
  /\ events' = Emit(events, Event("completed", 100, msgLen, msgLen))
  /\ pc' = "returned"
  /\ UNCHANGED <<inputVars, thrown, messagesStore, resumeFrom, chunks, decryptCalls,
                 chunkProgress, totalProcessed>>
  /\ NoPool

\* the chunks handed to the pool
chunksToInsert ==
  chunkMessages(messagesToInsert,
                calculateOptimalChunkSize(SliceLen(messagesToInsert), workerCount))

\* new WorkerPool(...): initializeWorkers pushes 0 .. workerCount-1
initialWorkers == [i \in 1 .. workerCount |-> i - 1]

\* lines 1022-1078: the first 'saving' event, the chunks, the pool and the
\* synchronous processChunk calls of chunks.map
CacheStartSaving ==
  /\ UNCHANGED <<bulkVars, libVars>>
  /\ pc = "saved"
  /\ SliceLen(messagesToInsert) # 0
  /\ events' = Emit(events,
       Event("saving",
             IF resumeFrom > 0 /\ msgLen > 0
               THEN 65 + ((resumeFrom * 30) \div msgLen) ELSE 65,
             resumeFrom, msgLen))
  /\ chunks' = chunksToInsert
  /\ chunkProgress' = [c \in 0 .. (Len(chunksToInsert) - 1) |-> 0]
  /\ totalProcessed' = initialTotalProcessed(resumeFrom)
  /\ poolState' = "alive"
  /\ errorEvents' = 0
  /\ LET n == Len(chunksToInsert)
         st == SubmitChunks(0, n, PoolSt(<<>>, initialWorkers, <<>>))
     IN  /\ taskQueue' = st.tq
         /\ availableWorkers' = st.aw
         /\ posted' = MarkPosted([c \in 0 .. (n - 1) |-> -1], st.sent)
         /\ wInbox' = Deliver([w \in Workers |-> <<>>], st.sent)
         /\ answered' = [c \in 0 .. (n - 1) |-> "none"]
         /\ wTask' = [c \in 0 .. (n - 1) |-> IdleTask]
         /\ mInbox' = [w \in Workers |-> <<>>]
         /\ txFailures' = 0
  /\ pc' = "dispatching"
  /\ UNCHANGED <<inputVars, thrown, storeVars, metadata, resumeFrom, decryptCalls>>

\* await Promise.all(...): every processChunk promise is resolved, which
\* processNextTask does when it posts the chunk to a worker
CacheDispatched ==
  /\ UNCHANGED <<bulkVars, libVars>>
  /\ pc = "dispatching"
  /\ \A c \in ChunkIdx : posted[c] # -1
  /\ pc' = "waiting"
  /\ UNCHANGED <<inputVars, thrown, storeVars, localVars, progressVars, poolVars, workerVars>>

\* the condition the interval callback of waitForCompletion tests
poolLooksDrained ==
  Len(availableWorkers) = workerCount /\ Len(taskQueue) = 0

\* WorkerPool.waitForCompletion: a tick of the interval finds the condition true
WaitForCompletion ==
  /\ UNCHANGED <<bulkVars, libVars>>
  /\ pc = "waiting"
  /\ poolLooksDrained
  /\ pc' = "resolved"
  /\ UNCHANGED <<inputVars, thrown, storeVars, localVars, progressVars, poolVars, workerVars>>

\* lines 1082-1109 and the finally block: completed is saved and announced,
\* the pool is terminated
CacheComplete ==
  /\ UNCHANGED <<bulkVars, libVars>>
  /\ pc = "resolved"
  /\ metadata' = completedMetadata(metadata, msgLen)
  /\ saveMetadata(completedMetadata(metadata, msgLen))
  /\ events' = Emit(events, Event("completed", 100, msgLen, msgLen))
  /\ PoolTerminated
  /\ pc' = "returned"
  /\ UNCHANGED <<inputVars, thrown, messagesStore, resumeFrom, chunks, decryptCalls,
                 chunkProgress, totalProcessed, posted, answered, errorEvents, workerVars>>

\* lines 1110-1132: the catch and finally blocks of
\* cacheDecryptedSnapshotMultiWorker
CacheCatch ==
  /\ UNCHANGED <<bulkVars, libVars>>
  /\ pc = "innerCatch"
  /\ IF metaRow.status # "absent"
       THEN saveMetadata(errorMetadata(metaRow, thrown))
       ELSE UNCHANGED <<metaRow, metaWrites>>
  /\ events' = Emit(events, Event("error", 0, Unset, Unset))
  /\ pc' = IF entry = "single" THEN "outerCatch" ELSE "rejected"
  /\ UNCHANGED <<inputVars, thrown, messagesStore, localVars, chunkProgress, totalProcessed>>
  /\ NoPool

\* ------------------------------------------------------------------------
\* Initial states: one invocation on a snapshot whose metadata row is any row
\* an earlier run can have left
\* ------------------------------------------------------------------------
MsgLens == {0, 1, 1150}
PriorProcessed == {0, 1000, 3000}

\* nothing of the pipeline has run yet
PipelineFresh ==
  /\ thrown = ""
  /\ messagesStore = {}
  /\ metaWrites = 0
  /\ metadata = NoMeta
  /\ resumeFrom = 0
  /\ chunks = <<>>
  /\ chunkProgress = <<>>
  /\ totalProcessed = 0
  /\ events = [count |-> 0, last |-> NoEvent]
  /\ decryptCalls = 0
  /\ poolState = "none"
  /\ availableWorkers = <<>>
  /\ taskQueue = <<>>
  /\ posted = <<>>
  /\ answered = <<>>
  /\ errorEvents = 0
  /\ wInbox = <<>>
  /\ wTask = <<>>
  /\ mInbox = <<>>
  /\ txFailures = 0

\* no bulk run is part of the behaviour
NoBulkRun ==
  /\ allSnapshots = <<>>
  /\ startRows = <<>>
  /\ rows = <<>>
  /\ recordStore = <<>>
  /\ stagingStore = <<>>
  /\ bulkStatuses = <<>>
  /\ bpc = "off"
  /\ stagedSnapshotId = 0
  /\ stagedSnapshotQueue = <<>>
  /\ waitingResolvers = 0
  /\ nextToSchedule = 0
  /\ inFlightMb = 0
  /\ activePreparations = {}
  /\ prep = <<>>
  /\ downloads = <<>>
  /\ decrypts = <<>>

\* no call of saveMessagesBatch, decryptSnapshot or decodeMsgpack is part of
\* the behaviour
NoBatchCall == batchInput = <<>> /\ messagesDb = {} /\ txn = <<>>
NoDecryptCall == fileSource = <<>> /\ dpc = "off" /\ dlog = <<>> /\ dresult = <<>>
NoMsgpackCall == mpInput = <<>> /\ mpOutput = <<>>

\* CONFIG as the module initialises it (lines 275-290)
InitialConfig ==
  [BATCH_SIZE_LARGE |-> BATCH_SIZE_LARGE, MAX_CONCURRENT_BATCHES |-> MAX_CONCURRENT_BATCHES]

\* no concurrent-batch variant is part of the behaviour
NoBatchQueue == config = InitialConfig /\ activeIndex = 0 /\ invocations = <<>>
NoLibCall == NoBatchCall /\ NoDecryptCall /\ NoMsgpackCall /\ NoBatchQueue

\* rows satisfy processedMessages <= totalMessages when totalMessages is set
InitRows ==
  {NoMeta}
  \cup {Meta("completed", k, k, "") : k \in PriorProcessed}
  \cup {Meta(st, k, IF k = 0 THEN Unset ELSE 3000,
              IF st = "error" THEN "earlier failure" ELSE "") :
          st \in {"processing", "error"}, k \in PriorProcessed}

Init ==
  /\ entry \in {"single", "cache"}
  /\ decryptOutcome \in {"ok", "badformat", "failDownload", "failImport", "failDecrypt"}
  /\ entry = "cache" => decryptOutcome \in {"ok", "badformat"}
  /\ msgLen \in MsgLens
  /\ decryptOutcome # "ok" => msgLen = 0
  /\ workerCount \in 1 .. MaxWorkers
  /\ startRow \in InitRows
  /\ metaRow = startRow
  /\ pc = "start"
  /\ PipelineFresh
  /\ NoBulkRun
  /\ NoLibCall

\* every step but the worker 'error' event
NextMsg ==
  \/ SingleStart
  \/ SingleDecrypt
  \/ SingleCatch
  \/ CacheStart
  \/ CacheBody
  \/ CacheAllCached
  \/ CacheStartSaving
  \/ CacheDispatched
  \/ WaitForCompletion
  \/ CacheComplete
  \/ CacheCatch
  \/ \E w \in Workers : WorkerOnMessage(w)
  \/ \E c \in ChunkIdx : \E k \in CommitCounts(SliceLen(chunkOf(c))) : TransactionComplete(c, k)
  \/ \E c \in ChunkIdx : \E k \in FailCounts(SliceLen(chunkOf(c))) : TransactionFail(c, k)
  \/ \E w \in Workers : HandleWorkerMessage(w)

Next ==
  \/ NextMsg
  \/ \E w \in Workers : HandleWorkerError(w)

Spec == Init /\ [][Next]_vars

\* A WorkerPool used on its own: it is constructed for a list of chunks of one
\* message each, the chunks are submitted with processChunk in index order and
\* the workers answer.
InitPool ==
  /\ entry = "none"
  /\ decryptOutcome = "ok"
  /\ msgLen \in 1 .. MaxPoolChunks
  /\ workerCount \in 1 .. MaxWorkers
  /\ startRow = NoMeta
  /\ metaRow = NoMeta
  /\ pc = "off"
  /\ thrown = ""
  /\ messagesStore = {}
  /\ metaWrites = 0
  /\ metadata = NoMeta
  /\ resumeFrom = 0
  /\ chunks = [i \in 1 .. msgLen |-> <<i - 1, i>>]
  /\ chunkProgress = [c \in 0 .. (msgLen - 1) |-> 0]
  /\ totalProcessed = 0
  /\ events = [count |-> 0, last |-> NoEvent]
  /\ decryptCalls = 0
  /\ poolState = "alive"
  /\ availableWorkers = initialWorkers
  /\ taskQueue = <<>>
  /\ posted = [c \in 0 .. (msgLen - 1) |-> -1]
  /\ answered = [c \in 0 .. (msgLen - 1) |-> "none"]
  /\ errorEvents = 0
  /\ wInbox = [w \in Workers |-> <<>>]
  /\ wTask = [c \in 0 .. (msgLen - 1) |-> IdleTask]
  /\ mInbox = [w \in Workers |-> <<>>]
  /\ txFailures = 0
  /\ NoBulkRun
  /\ NoLibCall

\* chunks.map((chunk, index) => workerPool.processChunk(chunk, index))
PoolSubmit ==
  /\ UNCHANGED <<bulkVars, libVars>>
  /\ poolState = "alive"
  /\ \A c \in ChunkIdx : posted[c] = -1
  /\ taskQueue = <<>>
  /\ PoolBecomes(SubmitChunks(0, Len(chunks), CurrentPool))
  /\ UNCHANGED <<inputVars, pc, thrown, storeVars, localVars, progressVars, poolState,
                 answered, errorEvents, wTask, mInbox, txFailures>>

NextPool ==
  \/ PoolSubmit
  \/ \E w \in Workers : WorkerOnMessage(w)
  \/ \E c \in ChunkIdx : \E k \in CommitCounts(SliceLen(chunkOf(c))) : TransactionComplete(c, k)
  \/ \E c \in ChunkIdx : \E k \in FailCounts(SliceLen(chunkOf(c))) : TransactionFail(c, k)
  \/ \E w \in Workers : HandleWorkerMessage(w)
  \/ \E w \in Workers : HandleWorkerError(w)

SpecPool == InitPool /\ [][NextPool]_vars

\* The pool with workers that answer every SAVE_BATCH: no worker 'error'
\* event; the submission, the workers' steps and the delivery of their
\* messages are fair, a failing transaction is never required.
PoolProgress ==
  \/ PoolSubmit
  \/ \E w \in Workers : WorkerOnMessage(w)
  \/ \E c \in ChunkIdx : \E k \in CommitCounts(SliceLen(chunkOf(c))) : TransactionComplete(c, k)
  \/ \E w \in Workers : HandleWorkerMessage(w)

NextPoolMsg ==
  \/ PoolSubmit
  \/ \E w \in Workers : WorkerOnMessage(w)
  \/ \E c \in ChunkIdx : \E k \in CommitCounts(SliceLen(chunkOf(c))) : TransactionComplete(c, k)
  \/ \E c \in ChunkIdx : \E k \in FailCounts(SliceLen(chunkOf(c))) : TransactionFail(c, k)
  \/ \E w \in Workers : HandleWorkerMessage(w)

SpecPoolFair == InitPool /\ [][NextPoolMsg]_vars /\ WF_vars(PoolProgress)

\* Steps the browser is bound to take: a worker receives its messages and its
\* transaction ends, the main thread handles the messages posted to it, the
\* interval of waitForCompletion ticks and awaited storage calls return.  A
\* failing transaction (TransactionFail) is never required.
Progress ==
  \/ SingleStart
  \/ SingleDecrypt
  \/ SingleCatch
  \/ CacheStart
  \/ CacheBody
  \/ CacheAllCached
  \/ CacheStartSaving
  \/ CacheDispatched
  \/ WaitForCompletion
  \/ CacheComplete
  \/ CacheCatch
  \/ \E w \in Workers : WorkerOnMessage(w)
  \/ \E c \in ChunkIdx : \E k \in CommitCounts(SliceLen(chunkOf(c))) : TransactionComplete(c, k)
  \/ \E w \in Workers : HandleWorkerMessage(w)

\* the pipeline when no worker 'error' event occurs, with the steps above fair
SpecMsgFair == Init /\ [][NextMsg]_vars /\ WF_vars(Progress)

\* ------------------------------------------------------------------------
\* The chunking functions on their own: any record count (the values around
\* every threshold of calculateOptimalChunkSize) with any worker count
\* ------------------------------------------------------------------------
ChunkLens ==
  {0, 1, 999, 1000, 1001, 2000, 3999, 4000, 4001, 6000, 15999, 16000, 16001,
   18000, 63999, 64000, 64001, 80000, 100000, 100001}

InitChunk ==
  /\ entry = "chunking"
  /\ decryptOutcome = "ok"
  /\ msgLen \in ChunkLens
  /\ workerCount \in 1 .. MaxChunkW
  /\ startRow = NoMeta
  /\ metaRow = NoMeta
  /\ pc = "chunking"
  /\ PipelineFresh
  /\ NoBulkRun
  /\ NoLibCall

\* chunkMessages(messages, calculateOptimalChunkSize(messages.length, W))
ChunkCompute ==
  /\ UNCHANGED <<bulkVars, libVars>>
  /\ pc = "chunking"
  /\ chunks' = chunkMessages(<<0, msgLen>>, calculateOptimalChunkSize(msgLen, workerCount))
  /\ pc' = "chunked"
  /\ UNCHANGED <<inputVars, thrown, storeVars, metadata, resumeFrom, decryptCalls,
                 progressVars, poolVars, workerVars>>

NextChunk == ChunkCompute

SpecChunk == InitChunk /\ [][NextChunk]_vars

\* ------------------------------------------------------------------------
\* The bulk run: handleBulkLoadAll and stageSnapshotToStorage
\* (src/app/page.tsx), the staging store (src/unnamed/part_001)
\* ------------------------------------------------------------------------
SnapshotIds == 1 .. Len(allSnapshots)
totalSnapshots == Len(allSnapshots)
NoData == [fmt |-> "none", len |-> 0]

\* Snapshot.file_size as the number and the unit the regular expression of
\* parseFileSizeMb finds: "missing" (no string), "none" (a bare number), "mb", "gb"
FileSize(value, unit) == [value |-> value, unit |-> unit]

parseFileSizeMb(fileSize) ==
  IF fileSize.unit = "missing" THEN DEFAULT_SIZE_MB
  ELSE IF fileSize.unit = "none"
    THEN (IF fileSize.value > 0 THEN fileSize.value ELSE DEFAULT_SIZE_MB)
  ELSE IF fileSize.unit = "gb" THEN fileSize.value * 1024
  ELSE fileSize.value

sizeMbOf(id) == parseFileSizeMb(allSnapshots[id].file_size)

\* getOptimalWorkerCount for navigator.hardwareConcurrency = hc (0: not available)
getOptimalWorkerCount(hc) ==
  IF hc > 0 THEN Max(2, Min(8, hc \div 2)) ELSE WORKER_COUNT

\* the scheduler state schedulePrefetch works on, and the preparations it started
Sched(next, mb, active, started) ==
  [next |-> next, mb |-> mb, active |-> active, started |-> started]

\* mutant: a preparation over the budget is never let through
canStart_BudgetOnly(st, sizeMb) == st.mb + sizeMb <= PREFETCH_SIZE_LIMIT_MB

\* mutant: the budget is not looked at
canStart_NoBudget(st, sizeMb) == TRUE

canStart(st, sizeMb) ==
  st.mb + sizeMb <= PREFETCH_SIZE_LIMIT_MB \/ st.active = {}

\* startPreparation up to the first await of stageSnapshotToStorage
startPreparation(st, id, sizeMb) ==
  Sched(st.next, st.mb + sizeMb, st.active \cup {id}, st.started \cup {id})

RECURSIVE schedulePrefetch(_)
schedulePrefetch(st) ==
  IF st.next < totalSnapshots /\ canStart(st, sizeMbOf(st.next + 1))
    THEN schedulePrefetch(
           [startPreparation(st, st.next + 1, sizeMbOf(st.next + 1))
              EXCEPT !.next = st.next + 1])
    ELSE st

\* the preparations st started are at their first await, with status fetching
Started(st, f, val) == [i \in SnapshotIds |-> IF i \in st.started THEN val ELSE f[i]]

SetScheduler(st) ==
  /\ nextToSchedule' = st.next
  /\ inFlightMb' = st.mb
  /\ activePreparations' = st.active

\* getNextStagedSnapshotId with the queue and the scheduler state given, and the
\* consumer loop up to its next await
ConsumerTakes(queue, st) ==
  IF queue # <<>>
    THEN /\ stagedSnapshotQueue' = Tail(queue)
         /\ stagedSnapshotId' = Head(queue)
         /\ waitingResolvers' = 0
         /\ bpc' = "loading"
    ELSE /\ stagedSnapshotQueue' = queue
         /\ stagedSnapshotId' = 0
         /\ IF st.next >= totalSnapshots /\ st.active = {}
              THEN waitingResolvers' = 0 /\ bpc' = "finalClear"
              ELSE waitingResolvers' = 1 /\ bpc' = "parked"

\* mutant: the consumer is resumed whether or not it is parked
notifyWakes_NotParked(queue, st) ==
  queue # <<>> \/ (st.next >= totalSnapshots /\ st.active = {})

\* notifyPrepared: whether it calls the parked resolver
notifyWakes(queue, st) ==
  /\ waitingResolvers > 0
  /\ queue # <<>> \/ (st.next >= totalSnapshots /\ st.active = {})

\* lines 398-414: the run starts and awaits clearAllStagedSnapshots
BulkStart ==
  /\ bpc = "idle"
  /\ bpc' = "clearing"
  /\ UNCHANGED <<libVars, pipeVars, bulkInputs, bulkStores, bulkStatuses, stagedSnapshotId,
                 waitingResolvers, stagedSnapshotQueue, schedVars, prepVars>>

\* lines 414-421: the staging store is cleared, fetchAllSnapshotsList is awaited
BulkCleared ==
  /\ bpc = "clearing"
  /\ stagingStore' = [i \in SnapshotIds |-> NoData]
  /\ bpc' = "listing"
  /\ UNCHANGED <<libVars, pipeVars, bulkInputs, rows, recordStore, bulkStatuses, stagedSnapshotId,
                 waitingResolvers, stagedSnapshotQueue, schedVars, prepVars>>

\* lines 421-505: the list arrives (or the fetch throws: lines 584-590); the
\* first schedulePrefetch and the first getNextStagedSnapshotId
BulkListed(listed) ==
  /\ bpc = "listing"
  /\ IF ~listed \/ totalSnapshots = 0
       THEN /\ bpc' = "finalClear"
            /\ UNCHANGED <<bulkStatuses, stagedSnapshotId, waitingResolvers,
                           stagedSnapshotQueue, schedVars, prep>>
       ELSE LET st == schedulePrefetch(Sched(0, 0, {}, {}))
            IN  /\ SetScheduler(st)
                /\ prep' = Started(st, prep, "fetching")
                /\ bulkStatuses' = Started(st, [i \in SnapshotIds |-> "queued"], "fetching")
                /\ ConsumerTakes(<<>>, st)
  /\ UNCHANGED <<libVars, pipeVars, bulkInputs, bulkStores, downloads, decrypts>>

\* how a stageSnapshotToStorage call ended: it returned true ("staged"), it
\* returned false for a missing key or URL ("skipped"), or its catch block ran
settledAs(success, status) ==
  IF success THEN "staged" ELSE IF status = "skipped" THEN "skipped" ELSE "failed"

\* the promise of stageSnapshotToStorage(id) settles with `success`, its status
\* being `status`: the then and finally callbacks of startPreparation (lines
\* 460-471) and, when notifyPrepared wakes it, the consumer up to its next await
PrepSettles(id, success, status) ==
  LET queue == IF success THEN Append(stagedSnapshotQueue, id) ELSE stagedSnapshotQueue
      st == schedulePrefetch(Sched(nextToSchedule, inFlightMb - sizeMbOf(id),
                                   activePreparations \ {id}, {}))
  IN  /\ SetScheduler(st)
      /\ prep' = Started(st, [prep EXCEPT ![id] = settledAs(success, status)], "fetching")
      /\ bulkStatuses' = Started(st, [bulkStatuses EXCEPT ![id] = status], "fetching")
      /\ IF notifyWakes(queue, st)
           THEN ConsumerTakes(queue, st)
           ELSE /\ stagedSnapshotQueue' = queue
                /\ UNCHANGED consumerVars

\* a preparation goes on to its next await
PrepMoves(id, to, status) ==
  /\ prep' = [prep EXCEPT ![id] = to]
  /\ bulkStatuses' = [bulkStatuses EXCEPT ![id] = status]
  /\ UNCHANGED <<consumerVars, stagedSnapshotQueue, schedVars>>

\* lines 324-341: fetchSnapshotDetail returns (or throws); the download starts
PrepFetched(id, outcome) ==
  /\ prep[id] = "fetching"
  /\ CASE outcome = "ok" ->
            /\ PrepMoves(id, "downloading", "processing")
            /\ downloads' = [downloads EXCEPT ![id] = @ + 1]
       [] outcome = "missing" ->
            /\ PrepSettles(id, FALSE, "skipped")
            /\ UNCHANGED downloads
       [] OTHER ->
            /\ PrepSettles(id, FALSE, "error")
            /\ UNCHANGED downloads
  /\ UNCHANGED <<libVars, pipeVars, bulkInputs, bulkStores, decrypts>>

\* lines 341-366: the file arrives (or the download fails); decryptSnapshot is called
PrepDownloaded(id, outcome) ==
  /\ prep[id] = "downloading"
  /\ IF outcome = "ok"
       THEN /\ PrepMoves(id, "decrypting", "processing")
            /\ decrypts' = [decrypts EXCEPT ![id] = @ + 1]
       ELSE /\ PrepSettles(id, FALSE, "error")
            /\ UNCHANGED decrypts
  /\ UNCHANGED <<libVars, pipeVars, bulkInputs, bulkStores, downloads>>

\* what a snapshot file can decrypt to
BulkMsgLens == {1}
BulkData ==
  {[fmt |-> "ok", len |-> n] : n \in BulkMsgLens} \cup {[fmt |-> "bad", len |-> 0]}

\* lines 356-369: decryptSnapshot returns (or throws); saveStagedSnapshot is called
PrepDecrypted(id, outcome) ==
  /\ prep[id] = "decrypting"
  /\ IF outcome = "ok"
       THEN PrepMoves(id, "saving", "processing")
       ELSE PrepSettles(id, FALSE, "error")
  /\ UNCHANGED <<libVars, pipeVars, bulkInputs, bulkStores, downloads, decrypts>>

\* lines 369-395: the staged record (holding the decrypted data `data`) is
\* stored, or the write is rejected
PrepSaved(id, outcome, data) ==
  /\ prep[id] = "saving"
  /\ IF outcome = "ok"
       THEN /\ stagingStore' = [stagingStore EXCEPT ![id] = data]
            /\ PrepSettles(id, TRUE, "processing")
       ELSE /\ PrepSettles(id, FALSE, "error")
            /\ UNCHANGED stagingStore
  /\ UNCHANGED <<libVars, pipeVars, bulkInputs, rows, recordStore, downloads, decrypts>>

CurrentScheduler == Sched(nextToSchedule, inFlightMb, activePreparations, {})

\* lines 507-522: loadStagedSnapshot returns (or rejects, which ends the loop:
\* lines 584-590); cacheDecryptedSnapshotMultiWorker is called
BulkLoaded(outcome) ==
  /\ bpc = "loading"
  /\ IF outcome # "ok"
       THEN /\ bpc' = "finalClear"
            /\ UNCHANGED <<bulkStatuses, stagedSnapshotId, waitingResolvers,
                           stagedSnapshotQueue>>
       ELSE IF stagingStore[stagedSnapshotId] = NoData
       THEN /\ bulkStatuses' = [bulkStatuses EXCEPT ![stagedSnapshotId] = "error"]
            /\ ConsumerTakes(stagedSnapshotQueue, CurrentScheduler)
       ELSE /\ bulkStatuses' = [bulkStatuses EXCEPT ![stagedSnapshotId] = "processing"]
            /\ bpc' = "persistStart"
            /\ UNCHANGED <<stagedSnapshotId, waitingResolvers, stagedSnapshotQueue>>
  /\ UNCHANGED <<libVars, pipeVars, bulkInputs, bulkStores, schedVars, prepVars>>

\* the persistence call of the consumer settles with the status `status` shown
\* (lines 524-581); deleteStagedSnapshot is awaited
PersistSettles(status) ==
  /\ bulkStatuses' = [bulkStatuses EXCEPT ![stagedSnapshotId] = status]
  /\ bpc' = "deleting"

\* cacheDecryptedSnapshotMultiWorker called by the consumer, lines 939-953:
\* ensureProcessingMetadata
PersistEnsure ==
  /\ bpc = "persistStart"
  /\ LET existing == rows[stagedSnapshotId]
     IN  IF skipCompleted(existing)
           THEN /\ PersistSettles("completed")
                /\ UNCHANGED rows
           ELSE /\ rows' = [rows EXCEPT ![stagedSnapshotId] = processingMetadata(existing)]
                /\ bpc' = "persistBody"
                /\ UNCHANGED bulkStatuses
  /\ UNCHANGED <<libVars, pipeVars, bulkInputs, recordStore, stagingStore, stagedSnapshotId,
                 waitingResolvers, stagedSnapshotQueue, schedVars, prepVars>>

\* lines 955-1000 and the catch block 1110-1127: the format check, the empty
\* snapshot, the first save of the metadata with totalMessages set
PersistBody ==
  /\ bpc = "persistBody"
  /\ LET data == stagingStore[stagedSnapshotId]
         m == rows[stagedSnapshotId]
     IN  IF data.fmt = "bad"
           THEN /\ rows' = [rows EXCEPT ![stagedSnapshotId] =
                              errorMetadata(m, "Invalid snapshot format: missing messages array")]
                /\ PersistSettles("error")
         ELSE IF data.len = 0
           THEN /\ rows' = [rows EXCEPT ![stagedSnapshotId] = Meta("completed", 0, 0, m.error)]
                /\ PersistSettles("completed")
         ELSE /\ rows' = [rows EXCEPT ![stagedSnapshotId] = [m EXCEPT !.totalMessages = data.len]]
              /\ bpc' = "persistSaving"
              /\ UNCHANGED bulkStatuses
  /\ UNCHANGED <<libVars, pipeVars, bulkInputs, recordStore, stagingStore, stagedSnapshotId,
                 waitingResolvers, stagedSnapshotQueue, schedVars, prepVars>>

\* the elements of a sequence
Range(seq) == {seq[i] : i \in 1 .. Len(seq)}

\* the chunks the persistence call of the consumer hands to its pool
PersistChunks ==
  IF bpc = "persistSaving"
    THEN LET len == stagingStore[stagedSnapshotId].len
             from == computeResumeFrom(rows[stagedSnapshotId], len)
         IN  Range(chunkMessages(<<from, len>>,
                                 calculateOptimalChunkSize(len - from, workerCount)))
    ELSE {}

\* lines 1002-1109: the chunks from resumeFrom on go through the pool, each of
\* them committed or given up, and completed is saved
PersistSaved(written) ==
  /\ bpc = "persistSaving"
  /\ LET m == rows[stagedSnapshotId]
         len == stagingStore[stagedSnapshotId].len
     IN  /\ written \subseteq PersistChunks
         /\ recordStore' = [recordStore EXCEPT ![stagedSnapshotId] = @ \cup written]
         /\ rows' = [rows EXCEPT ![stagedSnapshotId] = completedMetadata(m, len)]
  /\ PersistSettles("completed")
  /\ UNCHANGED <<libVars, pipeVars, bulkInputs, stagingStore, stagedSnapshotId, waitingResolvers,
                 stagedSnapshotQueue, schedVars, prepVars>>

\* deleteStagedSnapshot: the record is removed, or the request fails and the
\* promise rejects
deleteStagedSnapshot(store, id, outcome) ==
  IF outcome = "ok" THEN [store EXCEPT ![id] = NoData] ELSE store

\* lines 577-581 and the next turn of the loop: deleteStagedSnapshot settles (a
\* rejection is only logged), getNextStagedSnapshotId is called
BulkDeleted(outcome) ==
  /\ bpc = "deleting"
  /\ stagingStore' = deleteStagedSnapshot(stagingStore, stagedSnapshotId, outcome)
  /\ ConsumerTakes(stagedSnapshotQueue, CurrentScheduler)
  /\ UNCHANGED <<libVars, pipeVars, bulkInputs, rows, recordStore, bulkStatuses, schedVars, prepVars>>

\* lines 587-593: the finally block clears the staging store; the run is over
BulkFinalCleared ==
  /\ bpc = "finalClear"
  /\ stagingStore' = [i \in SnapshotIds |-> NoData]
  /\ bpc' = "done"
  /\ UNCHANGED <<libVars, pipeVars, bulkInputs, rows, recordStore, bulkStatuses, stagedSnapshotId,
                 waitingResolvers, stagedSnapshotQueue, schedVars, prepVars>>

\* the snapshots of the list: one without file_size, one of 30 MB
BulkFileSizes == {FileSize(0, "missing"), FileSize(30, "mb")}

\* the rows an earlier run can have left for a snapshot of one record
BulkRows == {NoMeta, Meta("completed", 1, 1, "")}

\* navigator.hardwareConcurrency of the machine
BulkCores == {4}

SnapshotLists ==
  UNION {[1 .. n -> BulkFileSizes] : n \in 0 .. MaxSnapshots}

InitBulk ==
  /\ entry = "bulk"
  /\ decryptOutcome = "ok"
  /\ msgLen = 0
  /\ workerCount \in {getOptimalWorkerCount(hc) : hc \in BulkCores}
  /\ startRow = NoMeta
  /\ metaRow = NoMeta
  /\ pc = "off"
  /\ PipelineFresh
  /\ NoLibCall
  /\ \E sizes \in SnapshotLists :
       allSnapshots = [i \in DOMAIN sizes |-> [id |-> i, file_size |-> sizes[i]]]
  /\ startRows \in [SnapshotIds -> BulkRows]
  /\ rows = startRows
  /\ recordStore = [i \in SnapshotIds |-> {}]
  /\ stagingStore = [i \in SnapshotIds |-> NoData]
  /\ bulkStatuses = [i \in SnapshotIds |-> "none"]
  /\ bpc = "idle"
  /\ stagedSnapshotId = 0
  /\ stagedSnapshotQueue = <<>>
  /\ waitingResolvers = 0
  /\ nextToSchedule = 0
  /\ inFlightMb = 0
  /\ activePreparations = {}
  /\ prep = [i \in SnapshotIds |-> "none"]
  /\ downloads = [i \in SnapshotIds |-> 0]
  /\ decrypts = [i \in SnapshotIds |-> 0]

NextBulk ==
  \/ BulkStart
  \/ BulkCleared
  \/ \E listed \in BOOLEAN : BulkListed(listed)
  \/ \E id \in SnapshotIds : \E o \in {"ok", "missing", "throws"} : PrepFetched(id, o)
  \/ \E id \in SnapshotIds : \E o \in {"ok", "throws"} : PrepDownloaded(id, o)
  \/ \E id \in SnapshotIds : \E o \in {"ok", "throws"} : PrepDecrypted(id, o)
  \/ \E id \in SnapshotIds : \E o \in {"ok", "throws"} : \E d \in BulkData : PrepSaved(id, o, d)
  \/ \E o \in {"ok", "throws"} : BulkLoaded(o)
  \/ PersistEnsure
  \/ PersistBody
  \/ \E written \in SUBSET PersistChunks : PersistSaved(written)
  \/ \E o \in {"ok", "throws"} : BulkDeleted(o)
  \/ BulkFinalCleared

SpecBulk == InitBulk /\ [][NextBulk]_vars

\* the bulk run when every awaited call settles: the fetches, decryptSnapshot,
\* the staging store and the persistence call each return or throw
SpecBulkFair == InitBulk /\ [][NextBulk]_vars /\ WF_vars(NextBulk)

\* ------------------------------------------------------------------------
\* saveMessagesBatch (IndexedDBManager, src/unnamed/part_000, and the inline
\* worker), one call at the level of single records.  A record of the store
\* is <<snapshotId, id, body>>; the object store has keyPath
\* ['snapshotId', 'id'].  The requests of a transaction are carried out in the
\* order they were placed; an error event of a request that no handler
\* cancels bubbles to the transaction and aborts it.
\* ------------------------------------------------------------------------
\* no pipeline run is part of the behaviour
NoPipelineRun ==
  /\ entry = "none"
  /\ decryptOutcome = "ok"
  /\ msgLen = 0
  /\ workerCount = 1
  /\ startRow = NoMeta
  /\ metaRow = NoMeta
  /\ pc = "off"
  /\ PipelineFresh

BatchSnapshots == {"A", "B"}
RecordIds == 1 .. MaxBatch

\* mutant: the key of a record is its id alone
keyOf_IdOnly(record) == <<record[2]>>

\* the key of a record under keyPath ['snapshotId', 'id']
keyOf(record) == <<record[1], record[2]>>

\* mutant: the record is added beside the one with the same key
put_Add(store, record) == store \cup {record}

\* store.put(record): the record replaces the one with the same key
put(store, record) ==
  {r \in store : keyOf(r) # keyOf(record)} \cup {record}

\* const message = { ...msg, snapshotId }
stamped(snapshotId, id) == <<snapshotId, id, "new">>

Txn(state, placed, next, completed, view, promise, value, calls, logged, sent) ==
  [state |-> state, placed |-> placed, next |-> next, completed |-> completed,
   view |-> view, promise |-> promise, value |-> value, calls |-> calls,
   logged |-> logged, posted |-> sent,
   \* which call of saveMessagesBatch for this batch it is, and how many of the
   \* calls so far have committed
   attempt |-> 1, commits |-> 0]

\* const totalMessages = messages.length
batchTotal == Len(batchInput.messages)

\* the value the promise of saveMessagesBatch resolves with
resolvedValue(variant, completed) == IF variant = "worker" THEN completed ELSE Unset

\* the transaction is opened and messages.forEach places a put request for
\* every record
BatchStart ==
  /\ txn.state = "idle"
  /\ txn' = [txn EXCEPT !.state = "active", !.placed = batchTotal, !.next = 1,
                        !.view = messagesDb]
  /\ UNCHANGED <<pipeVars, bulkVars, batchInput, messagesDb, decVars, mpVars, tuneVars>>

\* request.onsuccess of the next request
PutSucceeds ==
  /\ txn.state = "active"
  /\ txn.next <= txn.placed
  /\ LET completed == txn.completed + 1
         record == stamped(batchInput.snapshotId, batchInput.messages[txn.next])
     IN  txn' = [txn EXCEPT
                   !.view = put(@, record),
                   !.next = @ + 1,
                   !.completed = completed,
                   !.calls = IF completed % PROGRESS_REPORT_INTERVAL = 0
                                  \/ completed = batchTotal
                               THEN Append(@, completed) ELSE @]
  /\ UNCHANGED <<pipeVars, bulkVars, batchInput, messagesDb, decVars, mpVars, tuneVars>>

\* the next request fails: request.onerror logs it, the event bubbles to
\* transaction.onerror, which rejects; no handler calls preventDefault, so the
\* transaction is aborted and transaction.onabort runs
PutFails ==
  /\ txn.state = "active"
  /\ txn.next <= txn.placed
  /\ txn' = [txn EXCEPT !.state = "aborted", !.view = {}, !.logged = @ + 1,
                        !.promise = "rejected"]
  /\ UNCHANGED <<pipeVars, bulkVars, batchInput, messagesDb, decVars, mpVars, tuneVars>>

\* every request has succeeded and the transaction commits:
\* transaction.oncomplete
TransactionCommits ==
  /\ txn.state = "active"
  /\ txn.next > txn.placed
  /\ messagesDb' = txn.view
  /\ txn' = [txn EXCEPT
               !.state = "committed",
               !.calls = IF txn.completed # batchTotal
                           THEN Append(@, txn.completed) ELSE @,
               !.promise = "resolved",
               !.value = resolvedValue(batchInput.variant, txn.completed),
               !.commits = @ + 1]
  /\ UNCHANGED <<pipeVars, bulkVars, batchInput, decVars, mpVars, tuneVars>>

\* the transaction is aborted for a reason of its own (quota, a closing
\* connection): transaction.onabort
TransactionAborts ==
  /\ txn.state = "active"
  /\ txn' = [txn EXCEPT !.state = "aborted", !.view = {}, !.promise = "rejected"]
  /\ UNCHANGED <<pipeVars, bulkVars, batchInput, messagesDb, decVars, mpVars, tuneVars>>

\* mutant: the promise is not awaited
awaited_Never(promise) == TRUE

\* await saveMessagesBatch...(...) has returned
awaited(promise) == promise = "resolved"

\* self.onmessage after the await: COMPLETE with savedCount, the count of the
\* last call of its onProgress closure
WorkerPostsComplete ==
  /\ txn.state # "idle"
  /\ awaited(txn.promise)
  /\ txn.posted = <<>>
  /\ txn' = [txn EXCEPT !.posted = <<Msg("COMPLETE", 0, LastOr(txn.calls, 0), batchTotal)>>]
  /\ UNCHANGED <<pipeVars, bulkVars, batchInput, messagesDb, decVars, mpVars, tuneVars>>

\* the batches: records of one snapshot, ids possibly repeated
RECURSIVE SeqsUpTo(_, _)
SeqsUpTo(S, n) ==
  IF n = 0 THEN {<<>>}
  ELSE SeqsUpTo(S, n - 1) \cup {Append(q, x) : q \in {r \in SeqsUpTo(S, n - 1) : Len(r) = n - 1}, x \in S}

InitBatch ==
  /\ NoPipelineRun
  /\ NoBulkRun
  /\ NoDecryptCall
  /\ NoMsgpackCall
  /\ NoBatchQueue
  /\ batchInput \in [variant : {"manager", "worker"}, snapshotId : BatchSnapshots,
                     messages : SeqsUpTo(RecordIds, MaxBatch)]
  /\ messagesDb \in SUBSET {<<sid, id, "old">> : sid \in BatchSnapshots, id \in RecordIds}
  /\ txn = Txn("idle", 0, 0, 0, {}, "pending", Unset, <<>>, 0, <<>>)

NextBatch ==
  \/ BatchStart
  \/ PutSucceeds
  \/ PutFails
  \/ TransactionCommits
  \/ TransactionAborts
  \/ WorkerPostsComplete

SpecBatch == InitBatch /\ [][NextBatch]_vars

\* saveMessagesBatch is called again with the same snapshotId and the same
\* messages, on the store as the calls before left it: the next attempt of
\* saveMessagesBatchWithRetry after a rejection (lines 736-749), or the same
\* chunk of a later run over the snapshot
BatchAgain ==
  /\ txn.state \in {"committed", "aborted"}
  /\ txn.attempt < MaxCalls
  /\ txn' = [Txn("idle", 0, 0, 0, {}, "pending", Unset, <<>>, 0, <<>>) EXCEPT
               !.attempt = txn.attempt + 1, !.commits = txn.commits]
  /\ UNCHANGED <<pipeVars, bulkVars, batchInput, messagesDb, decVars, mpVars, tuneVars>>

NextRewrite ==
  \/ BatchStart
  \/ PutSucceeds
  \/ PutFails
  \/ TransactionCommits
  \/ TransactionAborts
  \/ WorkerPostsComplete
  \/ BatchAgain

\* a batch written up to MaxCalls times
SpecRewrite == InitBatch /\ [][NextRewrite]_vars

\* ------------------------------------------------------------------------
\* decodeMsgpack (decrypt-snapshot-streaming-full-worker.ts)
\*
\* A buffer is a sequence of bytes 0..255; buffer[offset] of the code is
\* buffer[offset + 1] here.  A JavaScript value is a tuple:
\*   <<"null">>, <<"bool", b>>, <<"str", code points>>, <<"arr", values>>,
\*   <<"obj", <<key, value>> pairs in insertion order>>, <<"bytes", bytes>>,
\*   <<"float", bytes of the IEEE encoding>>, and
\*   <<"num", negative, magnitude>> for an integral Number, the magnitude being
\*   its bytes, least significant first, without leading zero bytes.
\* ------------------------------------------------------------------------
RECURSIVE magnitudeOf(_)
magnitudeOf(n) == IF n = 0 THEN <<>> ELSE <<n % 256>> \o magnitudeOf(n \div 256)

RECURSIVE strip(_)
strip(le) ==
  IF le # <<>> /\ le[Len(le)] = 0 THEN strip(SubSeq(le, 1, Len(le) - 1)) ELSE le

reverse(s) == [i \in 1 .. Len(s) |-> s[Len(s) + 1 - i]]

\* the magnitude of the unsigned big-endian number `bytes`
unsignedOf(bytes) == strip(reverse(bytes))

RECURSIVE addTo(_, _)
addTo(le, k) ==
  IF k = 0 THEN le
  ELSE IF le = <<>> THEN <<k % 256>> \o addTo(<<>>, k \div 256)
  ELSE <<(le[1] + k) % 256>> \o addTo(Tail(le), (le[1] + k) \div 256)

\* the magnitude of the negative two's complement big-endian number `bytes`
negatedOf(bytes) == strip(addTo(reverse([i \in 1 .. Len(bytes) |-> 255 - bytes[i]]), 1))

num(n) == <<"num", n < 0, magnitudeOf(IF n < 0 THEN 0 - n ELSE n)>>

RECURSIVE bitLength(_)
bitLength(b) == IF b = 0 THEN 0 ELSE 1 + bitLength(b \div 2)

RECURSIVE pow2(_)
pow2(n) == IF n = 0 THEN 1 ELSE 2 * pow2(n - 1)

\* Number(bigint): the nearest double, ties to even; a double has 53
\* significant bits
toNumber(le) ==
  IF le = <<>> THEN le
  ELSE LET bits == 8 * (Len(le) - 1) + bitLength(le[Len(le)])
           s == bits - 53
       IN  IF s <= 0 THEN le
           ELSE LET low16 == le[1] + 256 * le[2]
                    rem == low16 % pow2(s)
                    odd == (low16 \div pow2(s)) % 2 = 1
                    up == rem > pow2(s - 1) \/ (rem = pow2(s - 1) /\ odd)
                    kept == low16 - rem
                    cut == <<kept % 256, kept \div 256>> \o SubSeq(le, 3, Len(le))
                IN  strip(IF up THEN addTo(cut, pow2(s)) ELSE cut)

\* view.getBigUint64 / view.getBigInt64 followed by Number(v)
numberOfBigUint64(bytes) == <<"num", FALSE, toNumber(unsignedOf(bytes))>>
numberOfBigInt64(bytes) ==
  IF bytes[1] >= 128 THEN <<"num", TRUE, toNumber(negatedOf(bytes))>>
  ELSE <<"num", FALSE, toNumber(unsignedOf(bytes))>>

\* buffer[i]: undefined beyond the end, which the bit operators read as 0
at(buffer, i) == IF i >= 0 /\ i < Len(buffer) THEN buffer[i + 1] ELSE 0

\* the four bytes at i .. i + 3
read4(buffer, i) == <<at(buffer, i), at(buffer, i + 1), at(buffer, i + 2), at(buffer, i + 3)>>

\* buffer.slice(from, from + len), for from >= 0
slice(buffer, from, len) ==
  IF len <= 0 THEN <<>> ELSE SubSeq(buffer, from + 1, Min(from + len, Len(buffer)))

\* (b1 << 24) | (b2 << 16) | (b3 << 8) | b4, a 32-bit signed integer
int32Of(buffer, i) ==
  (IF at(buffer, i) >= 128 THEN at(buffer, i) - 256 ELSE at(buffer, i)) * 16777216
    + at(buffer, i + 1) * 65536 + at(buffer, i + 2) * 256 + at(buffer, i + 3)

\* the loop of readStr and readBin
lengthOf(buffer, i, lenBytes) ==
  IF lenBytes = 1 THEN at(buffer, i)
  ELSE IF lenBytes = 2 THEN at(buffer, i) * 256 + at(buffer, i + 1)
  ELSE int32Of(buffer, i)

\* new TextDecoder().decode(bytes) for bytes of one-byte characters; another
\* byte on its own is decoded to U+FFFD
textDecode(bytes) == [i \in 1 .. Len(bytes) |-> IF bytes[i] < 128 THEN bytes[i] ELSE 65533]

Decoded(v, o) == [value |-> v, offset |-> o]
Thrown == <<"throw">>

\* the property key of obj[key.value]: the string itself, and for another value
\* the string String(value), kept apart from every decoded string
propertyKey(v) == IF v[1] = "str" THEN v ELSE <<"String", v>>

\* obj[key] = value: a present key keeps its place
setProperty(obj, key, value) ==
  IF \E i \in 1 .. Len(obj) : obj[i][1] = key
    THEN [i \in 1 .. Len(obj) |-> IF obj[i][1] = key THEN <<key, value>> ELSE obj[i]]
    ELSE Append(obj, <<key, value>>)

RECURSIVE decodeMsgpack(_, _)
RECURSIVE decodeArray(_, _, _, _)
RECURSIVE decodeMap(_, _, _, _)

\* the loop over the len items of an array, from offset, arr collected so far
decodeArray(buffer, offset, len, arr) ==
  IF len <= 0 THEN Decoded(<<"arr", arr>>, offset)
  ELSE LET v == decodeMsgpack(buffer, offset)
       IN  IF v.value = Thrown THEN v
           ELSE decodeArray(buffer, v.offset, len - 1, Append(arr, v.value))

\* the loop over the len entries of a map
decodeMap(buffer, offset, len, obj) ==
  IF len <= 0 THEN Decoded(<<"obj", obj>>, offset)
  ELSE LET key == decodeMsgpack(buffer, offset)
       IN  IF key.value = Thrown THEN key
           ELSE LET val == decodeMsgpack(buffer, key.offset)
                IN  IF val.value = Thrown THEN val
                    ELSE decodeMap(buffer, val.offset, len - 1,
                                   setProperty(obj, propertyKey(key.value), val.value))

decodeMsgpack(buffer, offset) ==
  IF offset < 0 \/ offset >= Len(buffer) THEN Decoded(Thrown, offset)
  ELSE
  LET type == at(buffer, offset)
      readStr(lenBytes) ==
        LET len == lengthOf(buffer, offset + 1, lenBytes)
        IN  Decoded(<<"str", textDecode(slice(buffer, offset + 1 + lenBytes, len))>>,
                    offset + 1 + lenBytes + len)
      readBin(lenBytes) ==
        LET len == lengthOf(buffer, offset + 1, lenBytes)
        IN  Decoded(<<"bytes", slice(buffer, offset + 1 + lenBytes, len)>>,
                    offset + 1 + lenBytes + len)
      ext(skip, len) ==
        Decoded(<<"bytes", slice(buffer, offset + skip, len)>>, offset + skip + len)
  IN  IF type = 192 THEN Decoded(<<"null">>, offset + 1)
      ELSE IF type = 194 THEN Decoded(<<"bool", FALSE>>, offset + 1)
      ELSE IF type = 195 THEN Decoded(<<"bool", TRUE>>, offset + 1)
      ELSE IF type <= 127 THEN Decoded(num(type), offset + 1)
      ELSE IF type >= 224 THEN Decoded(num(type - 256), offset + 1)
      ELSE IF type \div 32 = 5 THEN
        Decoded(<<"str", textDecode(slice(buffer, offset + 1, type % 32))>>,
                offset + 1 + (type % 32))
      ELSE IF type \div 16 = 8 THEN decodeMap(buffer, offset + 1, type % 16, <<>>)
      ELSE IF type \div 16 = 9 THEN decodeArray(buffer, offset + 1, type % 16, <<>>)
      ELSE IF type = 196 THEN readBin(1)
      ELSE IF type = 197 THEN readBin(2)
      ELSE IF type = 198 THEN readBin(4)
      ELSE IF type = 199 THEN ext(3, lengthOf(buffer, offset + 1, 1))
      ELSE IF type = 200 THEN ext(4, lengthOf(buffer, offset + 1, 2))
      ELSE IF type = 201 THEN ext(6, lengthOf(buffer, offset + 1, 4))
      ELSE IF type = 212 THEN ext(2, 1)
      ELSE IF type = 213 THEN ext(2, 2)
      ELSE IF type = 214 THEN ext(2, 4)
      ELSE IF type = 215 THEN ext(2, 8)
      ELSE IF type = 216 THEN ext(2, 16)
      \* new DataView(...) throws when the bytes are not there
      ELSE IF type = 202 THEN
        IF offset + 5 > Len(buffer) THEN Decoded(Thrown, offset)
        ELSE Decoded(<<"float", slice(buffer, offset + 1, 4)>>, offset + 5)
      ELSE IF type \in {203, 207, 211} /\ offset + 9 > Len(buffer) THEN Decoded(Thrown, offset)
      ELSE IF type = 203 THEN Decoded(<<"float", slice(buffer, offset + 1, 8)>>, offset + 9)
      ELSE IF type = 204 THEN Decoded(num(at(buffer, offset + 1)), offset + 2)
      ELSE IF type = 205 THEN
        Decoded(num(at(buffer, offset + 1) * 256 + at(buffer, offset + 2)), offset + 3)
      ELSE IF type = 206 THEN
        \* v >>> 0: the 32 bits read as an unsigned number
        Decoded(<<"num", FALSE, unsignedOf(read4(buffer, offset + 1))>>, offset + 5)
      ELSE IF type = 207 THEN
        Decoded(numberOfBigUint64(slice(buffer, offset + 1, 8)), offset + 9)
      ELSE IF type = 208 THEN
        LET v == at(buffer, offset + 1)
        IN  Decoded(num(IF v > 127 THEN v - 256 ELSE v), offset + 2)
      ELSE IF type = 209 THEN
        LET v == at(buffer, offset + 1) * 256 + at(buffer, offset + 2)
        IN  Decoded(num(IF v > 32767 THEN v - 65536 ELSE v), offset + 3)
      ELSE IF type = 210 THEN
        \* v | 0: the 32 bits read as a signed number
        LET v == read4(buffer, offset + 1)
        IN  Decoded(IF v[1] >= 128 THEN <<"num", TRUE, negatedOf(v)>>
                    ELSE <<"num", FALSE, unsignedOf(v)>>, offset + 5)
      ELSE IF type = 211 THEN
        Decoded(numberOfBigInt64(slice(buffer, offset + 1, 8)), offset + 9)
      ELSE IF type = 217 THEN readStr(1)
      ELSE IF type = 218 THEN readStr(2)
      ELSE IF type = 219 THEN readStr(4)
      ELSE IF type = 220 THEN
        decodeArray(buffer, offset + 3, lengthOf(buffer, offset + 1, 2), <<>>)
      ELSE IF type = 221 THEN
        decodeArray(buffer, offset + 5, lengthOf(buffer, offset + 1, 4), <<>>)
      ELSE IF type = 222 THEN
        decodeMap(buffer, offset + 3, lengthOf(buffer, offset + 1, 2), <<>>)
      ELSE IF type = 223 THEN
        decodeMap(buffer, offset + 5, lengthOf(buffer, offset + 1, 4), <<>>)
      ELSE Decoded(Thrown, offset)

\* ------------------------------------------------------------------------
\* MessagePack values and their encoding (the format read by decodeMsgpack).
\* A value is <<"nil">>, <<"bool", b>>, <<"bin", bytes>>, <<"int", code, bytes>>,
\* <<"str", code, code points>>, <<"arr", code, items>> or
\* <<"map", code, <<key, value>> pairs>>; code is the format byte, or 0 for
\* the one-byte fix formats.
\* ------------------------------------------------------------------------
\* n as k bytes, most significant first
bigEndian(n, k) == [i \in 1 .. k |-> (n \div pow2(8 * (k - i))) % 256]

\* the format byte and the length field of a str, array or map
lengthHeader(code, fix, len) ==
  IF code = 0 THEN <<fix + len>>
  ELSE IF code \in {217} THEN <<code>> \o bigEndian(len, 1)
  ELSE IF code \in {218, 220, 222} THEN <<code>> \o bigEndian(len, 2)
  ELSE <<code>> \o bigEndian(len, 4)

RECURSIVE encode(_)
RECURSIVE encodeAll(_)
encodeAll(items) == IF items = <<>> THEN <<>> ELSE encode(Head(items)) \o encodeAll(Tail(items))

encode(x) ==
  IF x[1] = "nil" THEN <<192>>
  ELSE IF x[1] = "bool" THEN IF x[2] THEN <<195>> ELSE <<194>>
  ELSE IF x[1] = "int" THEN IF x[2] = 0 THEN x[3] ELSE <<x[2]>> \o x[3]
  ELSE IF x[1] = "bin" THEN <<196, Len(x[2])>> \o x[2]
  ELSE IF x[1] = "str" THEN lengthHeader(x[2], 160, Len(x[3])) \o x[3]
  ELSE IF x[1] = "arr" THEN lengthHeader(x[2], 144, Len(x[3])) \o encodeAll(x[3])
  ELSE lengthHeader(x[2], 128, Len(x[3]))
         \o encodeAll([i \in 1 .. 2 * Len(x[3]) |-> x[3][(i + 1) \div 2][2 - (i % 2)]])

\* the JavaScript value equal to the MessagePack value x
RECURSIVE jsValue(_)
jsValue(x) ==
  IF x[1] = "nil" THEN <<"null">>
  ELSE IF x[1] = "bool" THEN <<"bool", x[2]>>
  ELSE IF x[1] = "int" THEN
    IF x[2] \in {0, 208, 209, 210, 211} /\ x[3][1] >= 128
      THEN <<"num", TRUE, negatedOf(x[3])>>
      ELSE <<"num", FALSE, unsignedOf(x[3])>>
  ELSE IF x[1] = "bin" THEN <<"bytes", x[2]>>
  ELSE IF x[1] = "str" THEN <<"str", x[3]>>
  ELSE IF x[1] = "arr" THEN <<"arr", [i \in 1 .. Len(x[3]) |-> jsValue(x[3][i])]>>
  ELSE <<"obj", [i \in 1 .. Len(x[3]) |-> <<jsValue(x[3][i][1]), jsValue(x[3][i][2])>>]>>

MpBytes == {0, 1, 32, 255}
\* the seven low bytes of the 8-byte integers
MpLowBytes == {0, 1, 32}
MpChars == {97, 98}
\* the keys of the maps: "a", "b", ...
MpKeys == {<<"str", 0, <<96 + i>>>> : i \in 1 .. MaxItems}
MpInts(bytes, lowBytes) ==
  {<<"int", 0, <<b>>>> : b \in {0, 1, 127, 224, 255}}
  \cup UNION {{<<"int", c, p>> : p \in [1 .. 1 -> bytes]} : c \in {204, 208}}
  \cup UNION {{<<"int", c, p>> : p \in [1 .. 2 -> bytes]} : c \in {205, 209}}
  \cup UNION {{<<"int", c, p>> : p \in [1 .. 4 -> bytes]} : c \in {206, 210}}
  \cup UNION {{<<"int", c, <<h>> \o p>> : h \in bytes, p \in [1 .. 7 -> lowBytes]} :
                c \in {207, 211}}
MpStrs(codes) == {<<"str", c, s>> : c \in codes, s \in SeqsUpTo(MpChars, MaxStrLen)}
\* the items of the arrays and the values of the maps
MpItems ==
  {<<"nil">>, <<"bool", TRUE>>, <<"int", 0, <<1>>>>, <<"int", 209, <<255, 0>>>>,
   <<"str", 0, <<97>>>>}
\* the entries of a map have different keys
MpPairs(items) ==
  {ps \in SeqsUpTo({<<k, v>> : k \in MpKeys, v \in items}, MaxItems) :
     \A i, j \in 1 .. Len(ps) : ps[i][1] = ps[j][1] => i = j}
MpArrs(codes, items) == {<<"arr", c, s>> : c \in codes, s \in SeqsUpTo(items, MaxItems)}
MpMaps(codes, items) == {<<"map", c, ps>> : c \in codes, ps \in MpPairs(items)}
\* arrays and maps of one item in arrays and maps
MpNested ==
  MpItems \cup {<<"arr", 0, <<x>>>> : x \in MpItems}
          \cup {<<"map", 0, <<<<<<"str", 0, <<97>>>>, x>>>>>> : x \in MpItems}
MpValues(items, nested) ==
  {<<"nil">>, <<"bool", FALSE>>, <<"bool", TRUE>>}
  \cup MpInts(MpBytes, MpLowBytes) \cup MpStrs({0, 217, 218, 219})
  \cup MpArrs({0, 220, 221}, items) \cup MpMaps({0, 222, 223}, items)
  \cup MpArrs({0}, nested) \cup MpMaps({0}, nested)

InitMsgpack ==
  /\ NoPipelineRun
  /\ NoBulkRun
  /\ NoBatchCall
  /\ NoDecryptCall
  /\ NoBatchQueue
  /\ mpInput \in MpValues(MpItems, MpNested)
  /\ mpOutput = <<>>

\* decodeMsgpack(buffer, 0) on the encoding of mpInput
MsgpackDecode ==
  /\ mpOutput = <<>>
  /\ mpOutput' = <<decodeMsgpack(encode(mpInput), 0)>>
  /\ UNCHANGED <<pipeVars, bulkVars, batchVars, decVars, mpInput, tuneVars>>

NextMsgpack == MsgpackDecode

SpecMsgpack == InitMsgpack /\ [][NextMsgpack]_vars

\* ------------------------------------------------------------------------
\* decryptSnapshot, decryptJsonSnapshot, decryptOsnpSnapshot
\* (decrypt-snapshot-streaming-full-worker.ts)
\*
\* fileSource describes the bytes handed to decryptSnapshot:
\*   kind        "json" when the bytes are a JSON text, else "binary"
\*   size        the number of bytes
\*   buffer      the bytes of a binary file (<<>> for a JSON text, which begins
\*               with a character of a JSON text and never with "OSNP")
\*   enc         of a JSON text: "complete" when the parsed object has enc with
\*               wrappedKey, ciphertext, nonce and tag, "partial" when one is
\*               missing, "missing" when there is no enc
\*   compression enc.compression of a JSON text: "gzip" or "absent"
\*   wrapOk      RSA-OAEP decrypts the wrapped key with the private key
\*   tagOk       AES-GCM accepts the tag
\*   plain       the bytes AES-GCM returns when it accepts the tag
\* The source is readable and the PEM key is imported.  decryptSnapshot is
\* called by decryptAndStreamToIndexedDBMultiWorker for a snapshot without
\* metadata row: SingleStart precedes the call and SingleCatch follows an error.
\* ------------------------------------------------------------------------
File(kind, size, buffer, enc, compression, wrapOk, tagOk, plain) ==
  [kind |-> kind, size |-> size, buffer |-> buffer, enc |-> enc,
   compression |-> compression, wrapOk |-> wrapOk, tagOk |-> tagOk, plain |-> plain]

Undefined == <<"undefined">>
GZIP_MAGIC == <<31, 139>>
OSNP_MAGIC == <<79, 83, 78, 80>>
wrappedKeyName == <<"str", <<119, 114, 97, 112, 112, 101, 100, 75, 101, 121>>>>
compressionName == <<"str", <<99, 111, 109, 112, 114, 101, 115, 115, 105, 111, 110>>>>
gzipName == <<"str", <<103, 122, 105, 112>>>>

\* decompressGzip(data); a gzip stream is the two magic bytes followed by the
\* data, and other bytes are not a gzip stream
Unzipped(ok, data) == [ok |-> ok, data |-> data]
decompressGzip(data) ==
  IF Len(data) >= 2 /\ SubSeq(data, 1, 2) = GZIP_MAGIC
    THEN Unzipped(TRUE, SubSeq(data, 3, Len(data)))
    ELSE Unzipped(FALSE, <<>>)

\* JSON.parse(text) for a text of the characters 0-9 [ ] , and characters that
\* are in no JSON text: numbers and arrays, without white space
RECURSIVE jsonDigits(_, _, _)
jsonDigits(text, i, n) ==
  IF i <= Len(text) /\ text[i] \in 48 .. 57 /\ n < 1000
    THEN jsonDigits(text, i + 1, 10 * n + (text[i] - 48))
    ELSE Decoded(num(n), i)

RECURSIVE jsonValue(_, _)
RECURSIVE jsonElements(_, _, _)
RECURSIVE afterElement(_, _, _)
jsonElements(text, i, arr) == afterElement(text, jsonValue(text, i), arr)

afterElement(text, v, arr) ==
  IF v.value = Thrown THEN v
  ELSE IF v.offset > Len(text) THEN Decoded(Thrown, v.offset)
  ELSE IF text[v.offset] = 93 THEN Decoded(<<"arr", Append(arr, v.value)>>, v.offset + 1)
  ELSE IF text[v.offset] = 44 THEN jsonElements(text, v.offset + 1, Append(arr, v.value))
  ELSE Decoded(Thrown, v.offset)

jsonValue(text, i) ==
  IF i > Len(text) THEN Decoded(Thrown, i)
  ELSE IF text[i] = 48 THEN Decoded(num(0), i + 1)
  ELSE IF text[i] \in 49 .. 57 THEN jsonDigits(text, i, 0)
  ELSE IF text[i] = 91 THEN
    IF i + 1 <= Len(text) /\ text[i + 1] = 93 THEN Decoded(<<"arr", <<>>>>, i + 2)
    ELSE jsonElements(text, i + 1, <<>>)
  ELSE Decoded(Thrown, i)

\* JSON.parse(new TextDecoder().decode(bytes))
wholeText(text, v) == IF v.value # Thrown /\ v.offset = Len(text) + 1 THEN v.value ELSE Thrown
parseText(text) == wholeText(text, jsonValue(text, 1))
jsonParse(bytes) == parseText(textDecode(bytes))

RECURSIVE normalizeMsgpackValue(_)
normalizeMsgpackValue(value) ==
  IF value[1] = "bytes" THEN <<"str", textDecode(value[2])>>
  ELSE IF value[1] = "arr"
    THEN <<"arr", [i \in 1 .. Len(value[2]) |-> normalizeMsgpackValue(value[2][i])]>>
  ELSE IF value[1] = "obj"
    THEN <<"obj", [i \in 1 .. Len(value[2]) |->
                     <<value[2][i][1], normalizeMsgpackValue(value[2][i][2])>>]>>
  ELSE value

\* header.name
getProperty(value, name) ==
  IF value[1] = "obj" /\ \E i \in 1 .. Len(value[2]) : value[2][i][1] = name
    THEN value[2][CHOOSE i \in 1 .. Len(value[2]) : value[2][i][1] = name][2]
    ELSE Undefined

\* !value is false
truthy(value) ==
  IF value[1] \in {"null", "undefined"} THEN FALSE
  ELSE IF value[1] = "bool" THEN value[2]
  ELSE IF value[1] = "num" THEN value[3] # <<>>
  ELSE IF value[1] = "str" THEN value[2] # <<>>
  ELSE TRUE

isGzipFlag(value) == value[1] = "str" /\ value = gzipName

\* the first part of decryptOsnpSnapshot, up to the slices of nonce, tag and
\* ciphertext: the error thrown, or "" and the header; tried is the list of the
\* offsets at which the header was decoded
OsnpParsed(error, header, tried) == [error |-> error, header |-> header, tried |-> tried]

\* the checks of the decoded header and of the room for the cipher length
checkHeader(buffer, headerDecoded, tried) ==
  IF headerDecoded.value = Thrown THEN OsnpParsed("Unsupported msgpack type", Undefined, tried)
  ELSE IF ~truthy(headerDecoded.value)
          \/ headerDecoded.value[1] \notin {"obj", "arr", "bytes"}
          \/ ~truthy(getProperty(headerDecoded.value, wrappedKeyName))
    THEN OsnpParsed("Invalid OSNP header", headerDecoded.value, tried)
  ELSE IF headerDecoded.offset + 4 > Len(buffer)
    THEN OsnpParsed("Offset is outside the bounds of the DataView", headerDecoded.value, tried)
  ELSE OsnpParsed("", headerDecoded.value, tried)

\* mutant: the header is decoded at both offsets
decodeHeader_Both(buffer, at9) ==
  IF at9.value = Thrown THEN checkHeader(buffer, decodeMsgpack(buffer, 8), <<9, 8>>)
  ELSE checkHeader(buffer, at9, <<9, 8>>)

\* try { decodeMsgpack(buffer, 9) } catch { decodeMsgpack(buffer, 8) }
decodeHeader(buffer, at9) ==
  IF at9.value = Thrown THEN checkHeader(buffer, decodeMsgpack(buffer, 8), <<9, 8>>)
  ELSE checkHeader(buffer, at9, <<9>>)

parseOsnp(file) ==
  IF file.size < 32 THEN OsnpParsed("Snapshot buffer is too small", Undefined, <<>>)
  ELSE IF file.kind = "json" \/ SubSeq(file.buffer, 1, 4) # OSNP_MAGIC
    THEN OsnpParsed("Not an OSNP snapshot", Undefined, <<>>)
  ELSE decodeHeader(file.buffer, decodeMsgpack(file.buffer, 9))

\* what is appended to the log: the names of the operations started, in order,
\* and failed(op) when op threw
failed(op) == <<op, "threw">>
started(op) == <<op, "started">>
Outcome(ok, value, error) == [ok |-> ok, value |-> value, error |-> error]

decLeft == UNCHANGED <<pipeVars, bulkVars, batchVars, mpVars, tuneVars, fileSource>>

\* decryptSnapshot: the source is read and the private key imported
DecStart ==
  /\ pc = "decrypt"
  /\ dpc = "start"
  /\ dpc' = "json"
  /\ UNCHANGED <<dlog, dresult>>
  /\ decLeft

\* decryptSnapshot: JSON.parse of the text of the buffer; a SyntaxError is caught
DecParseJson ==
  /\ dpc = "json"
  /\ IF fileSource.kind = "json"
       THEN dpc' = "json.fields" /\ dlog' = Append(dlog, started("JSON.parse"))
       ELSE dpc' = "osnp" /\ dlog' = dlog \o <<started("JSON.parse"), failed("JSON.parse")>>
  /\ UNCHANGED dresult
  /\ decLeft

\* decryptJsonSnapshot: the check of the enc fields; the error is caught by
\* decryptSnapshot
\* mutant: only enc itself is looked for
encComplete_EncOnly(file) == file.enc # "missing"

\* !enc || !enc.wrappedKey || !enc.ciphertext || !enc.nonce || !enc.tag is false
encComplete(file) == file.enc = "complete"

JsonFields ==
  /\ dpc = "json.fields"
  /\ IF encComplete(fileSource)
       THEN dpc' = "json.unwrap" /\ dlog' = dlog
       ELSE dpc' = "osnp" /\ dlog' = Append(dlog, failed("fields"))
  /\ UNCHANGED dresult
  /\ decLeft

\* decryptJsonSnapshot: RSA-OAEP decrypt of enc.wrappedKey and importKey
JsonUnwrap ==
  /\ dpc = "json.unwrap"
  /\ IF fileSource.wrapOk
       THEN dpc' = "json.decrypt" /\ dlog' = Append(dlog, started("unwrap"))
       ELSE dpc' = "osnp" /\ dlog' = dlog \o <<started("unwrap"), failed("unwrap")>>
  /\ UNCHANGED dresult
  /\ decLeft

\* decryptJsonSnapshot: AES-GCM decrypt of ciphertext and tag
JsonDecrypt ==
  /\ dpc = "json.decrypt"
  /\ IF fileSource.tagOk
       THEN dpc' = "json.finish" /\ dlog' = Append(dlog, started("decrypt"))
       ELSE dpc' = "osnp" /\ dlog' = dlog \o <<started("decrypt"), failed("decrypt")>>
  /\ UNCHANGED dresult
  /\ decLeft

\* decryptJsonSnapshot: decompression when enc.compression === 'gzip', then
\* JSON.parse; both errors are caught by decryptSnapshot
jsonFinished(unzip, unzipped, parsed) ==
  IF ~unzipped.ok
    THEN /\ dpc' = "osnp"
         /\ dlog' = dlog \o unzip \o <<failed("gunzip")>>
         /\ UNCHANGED dresult
  ELSE IF parsed = Thrown
    THEN /\ dpc' = "osnp"
         /\ dlog' = dlog \o unzip \o <<started("parse"), failed("parse")>>
         /\ UNCHANGED dresult
  ELSE /\ dpc' = "done"
       /\ dlog' = dlog \o unzip \o <<started("parse")>>
       /\ dresult' = <<Outcome(TRUE, parsed, "")>>
jsonUnzipped(unzip, unzipped) == jsonFinished(unzip, unzipped, jsonParse(unzipped.data))
JsonFinish ==
  /\ dpc = "json.finish"
  /\ IF fileSource.compression = "gzip"
       THEN jsonUnzipped(<<started("gunzip")>>, decompressGzip(fileSource.plain))
       ELSE jsonUnzipped(<<>>, Unzipped(TRUE, fileSource.plain))
  /\ decLeft

\* decryptOsnpSnapshot up to the header check and the slices; an error is
\* logged and rethrown by decryptSnapshot
headerChecked(p) ==
  /\ dlog' = dlog \o <<started("osnp")>>
               \o [i \in 1 .. Len(p.tried) |->
                     started(IF p.tried[i] = 9 THEN "header@9" ELSE "header@8")]
               \o (IF p.error = "" THEN <<>> ELSE <<failed("osnp")>>)
  /\ IF p.error = ""
       THEN dpc' = "osnp.unwrap" /\ UNCHANGED dresult
       ELSE dpc' = "done" /\ dresult' = <<Outcome(FALSE, Undefined, p.error)>>
OsnpHeader ==
  /\ dpc = "osnp"
  /\ headerChecked(parseOsnp(fileSource))
  /\ decLeft

\* decryptOsnpSnapshot: RSA-OAEP decrypt of header.wrappedKey, which has to be
\* bytes, and importKey
OsnpUnwrap ==
  /\ dpc = "osnp.unwrap"
  /\ IF fileSource.wrapOk /\ getProperty(parseOsnp(fileSource).header, wrappedKeyName)[1] = "bytes"
       THEN /\ dpc' = "osnp.decrypt"
            /\ dlog' = Append(dlog, started("unwrap"))
            /\ UNCHANGED dresult
       ELSE /\ dpc' = "done"
            /\ dlog' = dlog \o <<started("unwrap"), failed("unwrap")>>
            /\ dresult' = <<Outcome(FALSE, Undefined, "OperationError: unwrap")>>
  /\ decLeft

\* decryptOsnpSnapshot: AES-GCM decrypt of ciphertext and tag
OsnpDecrypt ==
  /\ dpc = "osnp.decrypt"
  /\ IF fileSource.tagOk
       THEN /\ dpc' = "osnp.finish"
            /\ dlog' = Append(dlog, started("decrypt"))
            /\ UNCHANGED dresult
       ELSE /\ dpc' = "done"
            /\ dlog' = dlog \o <<started("decrypt"), failed("decrypt")>>
            /\ dresult' = <<Outcome(FALSE, Undefined, "OperationError: decrypt")>>
  /\ decLeft

\* decryptOsnpSnapshot: decompression when header.compression === 'gzip', then
\* JSON.parse, and in its catch decodeMsgpack and normalizeMsgpackValue
osnpFinished(unzip, unzipped, parsed, msg) ==
  /\ dpc' = "done"
  /\ IF ~unzipped.ok
       THEN /\ dlog' = dlog \o unzip \o <<failed("gunzip")>>
            /\ dresult' = <<Outcome(FALSE, Undefined, "TypeError: gzip")>>
     ELSE IF parsed # Thrown
       THEN /\ dlog' = dlog \o unzip \o <<started("parse")>>
            /\ dresult' = <<Outcome(TRUE, parsed, "")>>
     ELSE IF msg.value = Thrown
       THEN /\ dlog' = dlog \o unzip \o <<started("parse"), failed("parse"),
                                          started("msgpack"), failed("msgpack")>>
            /\ dresult' = <<Outcome(FALSE, Undefined, "Unsupported msgpack type")>>
     ELSE /\ dlog' = dlog \o unzip \o <<started("parse"), failed("parse"),
                                        started("msgpack")>>
          /\ dresult' = <<Outcome(TRUE, normalizeMsgpackValue(msg.value), "")>>
osnpUnzipped(unzip, unzipped) ==
  osnpFinished(unzip, unzipped, jsonParse(unzipped.data), decodeMsgpack(unzipped.data, 0))
osnpFlagged(gzip) ==
  IF gzip THEN osnpUnzipped(<<started("gunzip")>>, decompressGzip(fileSource.plain))
  ELSE osnpUnzipped(<<>>, Unzipped(TRUE, fileSource.plain))
OsnpFinish ==
  /\ dpc = "osnp.finish"
  /\ osnpFlagged(isGzipFlag(getProperty(parseOsnp(fileSource).header, compressionName)))
  /\ decLeft

\* decryptAndStreamToIndexedDBMultiWorker: the error thrown by decryptSnapshot
\* enters the catch block
DecThrown ==
  /\ pc = "decrypt"
  /\ dpc = "done"
  /\ ~dresult[1].ok
  /\ thrown' = dresult[1].error
  /\ pc' = "outerCatch"
  /\ dpc' = "thrown"
  /\ UNCHANGED <<inputVars, storeVars, localVars, progressVars, poolVars, workerVars>>
  /\ UNCHANGED <<bulkVars, batchVars, mpVars, tuneVars, fileSource, dlog, dresult>>

\* the files
mpStr(name) == <<"str", 0, name[2]>>
osnpHeaders ==
  LET key == <<mpStr(wrappedKeyName), <<"bin", <<7>>>>>>
      flag == <<mpStr(compressionName), mpStr(gzipName)>>
  IN  {encode(<<"map", 0, <<key>>>>), encode(<<"map", 0, <<key, flag>>>>),
       encode(<<"map", 0, <<flag>>>>),
       encode(<<"map", 0, <<<<mpStr(wrappedKeyName), mpStr(gzipName)>>>>>>),
       <<192>>, <<193>>}
\* cipher length 1, nonce, tag and one byte of ciphertext
osnpBody == bigEndian(1, 4) \o [i \in 1 .. 28 |-> 0] \o <<0>>
OsnpBuffers ==
  {m \o <<1, 0, 0, 0, 0>> \o h \o osnpBody : m \in {OSNP_MAGIC, <<79, 83, 78, 81>>},
                                              h \in osnpHeaders}
  \cup {OSNP_MAGIC \o <<1, 0, 0, 0>> \o h \o osnpBody : h \in osnpHeaders}
  \cup {OSNP_MAGIC \o <<1, 0, 0, 0, 193, 193>> \o osnpBody}
  \cup {OSNP_MAGIC \o <<1, 0, 0, 0, 0>> \o h : h \in osnpHeaders}
  \cup {OSNP_MAGIC \o <<1>>, <<1, 2, 3>>}
\* "[1]" as JSON text and as MessagePack, a MessagePack bin, a byte that is
\* neither, and the first two compressed
Plains ==
  LET json == <<91, 49, 93>>
      msgpack == <<145, 1>>
  IN  {json, msgpack, <<196, 1, 97>>, <<193>>, GZIP_MAGIC \o json, GZIP_MAGIC \o msgpack}
Files(buffers) ==
  {File("binary", Len(b), b, "missing", "absent", w, t, p) :
     b \in buffers, w \in BOOLEAN, t \in BOOLEAN, p \in Plains}
  \cup {File("json", n, <<>>, e, "absent", TRUE, TRUE, <<91, 49, 93>>) :
          n \in {2, 400}, e \in {"missing", "partial"}}
  \cup {File("json", 400, <<>>, "complete", c, w, t, p) :
          c \in {"gzip", "absent"}, w \in BOOLEAN, t \in BOOLEAN, p \in Plains}

InitDecrypt ==
  /\ entry = "single"
  /\ decryptOutcome = "ok"
  /\ msgLen = 0
  /\ workerCount = 1
  /\ startRow = NoMeta
  /\ metaRow = NoMeta
  /\ pc = "start"
  /\ PipelineFresh
  /\ NoBulkRun
  /\ NoBatchCall
  /\ NoMsgpackCall
  /\ NoBatchQueue
  /\ fileSource \in Files(OsnpBuffers)
  /\ dpc = "start"
  /\ dlog = <<>>
  /\ dresult = <<>>

NextDecrypt ==
  \/ SingleStart
  \/ DecStart
  \/ DecParseJson
  \/ JsonFields
  \/ JsonUnwrap
  \/ JsonDecrypt
  \/ JsonFinish
  \/ OsnpHeader
  \/ OsnpUnwrap
  \/ OsnpDecrypt
  \/ OsnpFinish
  \/ DecThrown
  \/ SingleCatch

SpecDecrypt == InitDecrypt /\ [][NextDecrypt]_vars

\* ------------------------------------------------------------------------
\* class SaveWorkerPool, the save worker it creates and the saving stage of
\* decryptAndStreamToIndexedDBFullWorker
\* (src/lib/decrypt-snapshot-streaming-full-worker.ts).  processNextTask and
\* processChunk of this class are the ones of WorkerPool, statement for
\* statement, and the operators above are used for them.  In this
\* specification chunkProgress is the progressMap of the pool: its keys are
\* worker indices.
\* ------------------------------------------------------------------------
\* for (i = 0; i < messages.length; i += CONFIG.CHUNK_SIZE) chunks.push(slice)
RECURSIVE sliceChunks(_, _, _)
sliceChunks(i, len, size) ==
  IF i >= len THEN <<>>
  ELSE <<<<i, Min(i + size, len)>>>> \o sliceChunks(i + size, len, size)

\* this.progressMap.forEach(({ saved }) => totalSaved += saved)
RECURSIVE totalSaved(_, _)
totalSaved(progressMap, n) ==
  IF n = 0 THEN 0 ELSE progressMap[n - 1] + totalSaved(progressMap, n - 1)

\* lines 424-459: the first 'saving' event, the chunks of CONFIG.CHUNK_SIZE
\* records, new SaveWorkerPool and the processChunk calls of chunks.map
FullStartSaving(size) ==
  /\ UNCHANGED <<bulkVars, libVars>>
  /\ pc = "fullSaving"
  /\ CeilDiv(msgLen, size) <= MaxPoolChunks
  /\ events' = Emit(events, Event("saving", 65, 0, msgLen))
  /\ chunks' = sliceChunks(0, msgLen, size)
  /\ chunkProgress' = [w \in Workers |-> 0]
  /\ totalProcessed' = 0
  /\ poolState' = "alive"
  /\ LET n == Len(sliceChunks(0, msgLen, size))
         st == SubmitChunks(0, n, PoolSt(<<>>, initialWorkers, <<>>))
     IN  /\ taskQueue' = st.tq
         /\ availableWorkers' = st.aw
         /\ posted' = MarkPosted([c \in 0 .. (n - 1) |-> -1], st.sent)
         /\ wInbox' = Deliver([w \in Workers |-> <<>>], st.sent)
         /\ answered' = [c \in 0 .. (n - 1) |-> "none"]
         /\ wTask' = [c \in 0 .. (n - 1) |-> IdleTask]
         /\ mInbox' = [w \in Workers |-> <<>>]
  /\ pc' = "fullDispatching"
  /\ UNCHANGED <<inputVars, thrown, storeVars, metadata, resumeFrom, decryptCalls,
                 errorEvents, txFailures>>

\* await Promise.all(chunks.map(...)): every resolver has been called
FullDispatched ==
  /\ UNCHANGED <<bulkVars, libVars>>
  /\ pc = "fullDispatching"
  /\ \A c \in ChunkIdx : posted[c] # -1
  /\ pc' = "fullWaiting"
  /\ UNCHANGED <<inputVars, thrown, storeVars, localVars, progressVars, poolVars, workerVars>>

\* SaveWorkerPool.waitForCompletion: a tick of the interval finds the
\* condition true
FullWaitForCompletion ==
  /\ UNCHANGED <<bulkVars, libVars>>
  /\ pc = "fullWaiting"
  /\ Len(availableWorkers) = workerCount /\ Len(taskQueue) = 0
  /\ pc' = "fullResolved"
  /\ UNCHANGED <<inputVars, thrown, storeVars, localVars, progressVars, poolVars, workerVars>>

\* lines 463-478 and the finally block: completed is saved and announced, the
\* workers are terminated
FullComplete ==
  /\ UNCHANGED <<bulkVars, libVars>>
  /\ pc = "fullResolved"
  /\ metadata' = completedMetadata(metadata, msgLen)
  /\ saveMetadata(completedMetadata(metadata, msgLen))
  /\ events' = Emit(events, Event("completed", 100, msgLen, msgLen))
  /\ poolState' = "terminated"
  /\ pc' = "returned"
  /\ UNCHANGED <<inputVars, thrown, messagesStore, resumeFrom, chunks, decryptCalls,
                 chunkProgress, totalProcessed, availableWorkers, taskQueue, posted, answered,
                 errorEvents, workerVars>>

\* self.onmessage of the save worker: a SAVE_BATCH message is received and
\* saveMessagesBatch is called (once: this worker does not retry)
SaveWorkerOnMessage(w) ==
  /\ UNCHANGED <<bulkVars, libVars>>
  /\ poolState = "alive"
  /\ wInbox[w] # <<>>
  /\ LET c == Head(wInbox[w])
     IN  /\ wInbox' = [wInbox EXCEPT ![w] = Tail(@)]
         /\ wTask' = [wTask EXCEPT ![c] =
                        [phase |-> "saving", attempt |-> 1, failed |-> 0, savedCount |-> 0]]
  /\ UNCHANGED <<inputVars, pc, thrown, storeVars, localVars, progressVars, poolVars, mInbox,
                 txFailures>>

\* the PROGRESS messages of request.onsuccess (they carry no chunkIndex)
SaveProgressMessages(calls, total) == ProgressMessages(Unset, calls, total)

\* the transaction commits: transaction.oncomplete resolves and COMPLETE is
\* posted after the PROGRESS messages of the puts
SaveWorkerCompletes(c) ==
  /\ UNCHANGED <<bulkVars, libVars>>
  /\ poolState = "alive"
  /\ wTask[c].phase = "saving"
  /\ LET total == SliceLen(chunkOf(c))
     IN  /\ messagesStore' = messagesStore \cup {chunkOf(c)}
         /\ wTask' = [wTask EXCEPT ![c] =
                        [@ EXCEPT !.phase = "completed", !.savedCount = total]]
         /\ mInbox' = [mInbox EXCEPT ![posted[c]] =
                        @ \o SaveProgressMessages(SuccessCallbacks(total, total), total)
                          \o <<Msg("COMPLETE", c, total, total)>>]
  /\ UNCHANGED <<inputVars, pc, thrown, metaRow, metaWrites, localVars, progressVars,
                 poolVars, wInbox, txFailures>>

\* transaction.onerror after `completed` puts succeeded: saveMessagesBatch
\* rejects and the catch block posts ERROR
SaveWorkerFails(c, completed) ==
  /\ UNCHANGED <<bulkVars, libVars>>
  /\ poolState = "alive"
  /\ wTask[c].phase = "saving"
  /\ LET total == SliceLen(chunkOf(c))
         calls == SuccessCallbacks(total, completed)
     IN  /\ completed \in FailCounts(total)
         /\ txFailures < MaxFailures
         /\ txFailures' = txFailures + 1
         /\ wTask' = [wTask EXCEPT ![c] =
                        [phase |-> "errored", attempt |-> 1, failed |-> 1,
                         savedCount |-> LastOr(calls, 0)]]
         /\ mInbox' = [mInbox EXCEPT ![posted[c]] =
                        @ \o SaveProgressMessages(calls, total)
                          \o <<Msg("ERROR", c, 0, total)>>]
  /\ UNCHANGED <<inputVars, pc, thrown, storeVars, localVars, progressVars, poolVars, wInbox>>

\* the onProgress callback handed to the pool, called with totalSaved
fullProgress(saved) ==
  /\ totalProcessed' = saved
  /\ events' = Emit(events, Event("saving", 65 + ((saved * 30) \div msgLen), saved, msgLen))

\* SaveWorkerPool.handleWorkerMessage(workerIndex, data) for the oldest
\* message of worker w: PROGRESS and COMPLETE have a branch, ERROR has none
SaveHandleWorkerMessage(w) ==
  /\ UNCHANGED <<bulkVars, libVars>>
  /\ poolState = "alive"
  /\ mInbox[w] # <<>>
  /\ LET data == Head(mInbox[w])
     IN  /\ mInbox' = [mInbox EXCEPT ![w] = Tail(@)]
         /\ IF data.type = "PROGRESS"
              THEN /\ chunkProgress' = [chunkProgress EXCEPT ![w] = data.saved]
                   /\ fullProgress(totalSaved([chunkProgress EXCEPT ![w] = data.saved],
                                              workerCount))
                   /\ UNCHANGED <<taskQueue, availableWorkers, posted, wInbox, answered>>
              ELSE IF data.type = "COMPLETE"
              THEN /\ PoolBecomes(releaseWorker(CurrentPool, w))
                   /\ answered' = [answered EXCEPT ![data.chunkIndex] = data.type]
                   /\ UNCHANGED progressVars
              ELSE /\ answered' = [answered EXCEPT ![data.chunkIndex] = data.type]
                   /\ UNCHANGED <<taskQueue, availableWorkers, posted, wInbox, progressVars>>
  /\ UNCHANGED <<inputVars, pc, thrown, storeVars, localVars, poolState, errorEvents, wTask,
                 txFailures>>

\* record counts and values of CONFIG.CHUNK_SIZE (configureFullWorker sets it)
FullMsgLens == (1 .. MaxPoolChunks) \cup {300, 3001}
FullChunkSizes == {1, 150, 3000}

\* the state after line 421: the row is saved with totalMessages set
InitFull ==
  /\ entry = "full"
  /\ decryptOutcome = "ok"
  /\ msgLen \in FullMsgLens
  /\ workerCount \in 1 .. MaxWorkers
  /\ startRow = NoMeta
  /\ metaRow = Meta("processing", 0, msgLen, "")
  /\ pc = "fullSaving"
  /\ thrown = ""
  /\ messagesStore = {}
  /\ metaWrites = 2
  /\ metadata = Meta("processing", 0, msgLen, "")
  /\ resumeFrom = 0
  /\ chunks = <<>>
  /\ chunkProgress = <<>>
  /\ totalProcessed = 0
  /\ events = [count |-> 0, last |-> NoEvent]
  /\ decryptCalls = 1
  /\ poolState = "none"
  /\ availableWorkers = <<>>
  /\ taskQueue = <<>>
  /\ posted = <<>>
  /\ answered = <<>>
  /\ errorEvents = 0
  /\ wInbox = <<>>
  /\ wTask = <<>>
  /\ mInbox = <<>>
  /\ txFailures = 0
  /\ NoBulkRun
  /\ NoLibCall

\* the steps the browser is bound to take (a failing transaction is not one)
FullProgress ==
  \/ \E size \in FullChunkSizes : FullStartSaving(size)
  \/ FullDispatched
  \/ FullWaitForCompletion
  \/ FullComplete
  \/ \E w \in Workers : SaveWorkerOnMessage(w)
  \/ \E c \in ChunkIdx : SaveWorkerCompletes(c)
  \/ \E w \in Workers : SaveHandleWorkerMessage(w)

NextFull ==
  \/ \E size \in FullChunkSizes : FullStartSaving(size)
  \/ FullDispatched
  \/ FullWaitForCompletion
  \/ FullComplete
  \/ \E w \in Workers : SaveWorkerOnMessage(w)
  \/ \E c \in ChunkIdx : SaveWorkerCompletes(c)
  \/ \E c \in ChunkIdx : \E k \in FailCounts(SliceLen(chunkOf(c))) : SaveWorkerFails(c, k)
  \/ \E w \in Workers : SaveHandleWorkerMessage(w)

SpecFull == InitFull /\ [][NextFull]_vars

SpecFullFair == SpecFull /\ WF_vars(FullProgress)

\* ------------------------------------------------------------------------
\* The concurrent-batch variant: calculateOptimalBatchSize, processBatchQueue
\* and the saving stage of decryptAndStreamToIndexedDBOptimized
\* (src/lib/decrypt-snapshot-streaming.ts lines 275-522) with
\* IndexedDBManager.saveMessagesBatch (src/unnamed/part_000).  In this
\* specification chunks is the list of batches, wTask[b] the saveMessagesBatch
\* call of batch b and totalProcessed the processedCount of the run.
\* ------------------------------------------------------------------------
calculateOptimalBatchSize(totalMessages) ==
  IF totalMessages < 5000 THEN BATCH_SIZE_SMALL
  ELSE IF totalMessages < 20000 THEN BATCH_SIZE_MEDIUM
  ELSE IF totalMessages < 50000 THEN config.BATCH_SIZE_LARGE
  ELSE BATCH_SIZE_XLARGE

\* batches.slice(activeIndex, activeIndex + maxConcurrent), as batch indices
roundOf(first, maxConcurrent, n) == {b \in 0 .. (n - 1) : first <= b /\ b < first + maxConcurrent}

\* the saveMessagesBatch calls of a round have their transactions open
roundStarted(tasks, first, maxConcurrent, n) ==
  [b \in 0 .. (n - 1) |->
     IF b \in roundOf(first, maxConcurrent, n)
       THEN [phase |-> "saving", attempt |-> 1, failed |-> 0, savedCount |-> 0]
       ELSE tasks[b]]

\* the next value of `completed` at which request.onsuccess calls onProgress
nextReport(completed, total) ==
  Min(total, ((completed \div PROGRESS_REPORT_INTERVAL) + 1) * PROGRESS_REPORT_INTERVAL)

\* mutant: the processor hands on the number of records saved since its last
\* report
savedInBatch_Delta(saved, reportedBefore) == saved - reportedBefore

\* updateProgress(batchIndex, saved): the second argument is the `saved` the
\* callback of saveMessagesBatch was called with
savedInBatch(saved, reportedBefore) == saved

\* the updateProgress closure of decryptAndStreamToIndexedDBOptimized
optUpdateProgress(batchIndex, savedInThisBatch) ==
  /\ totalProcessed' = totalProcessed + savedInThisBatch
  /\ events' = Emit(events,
       Event("saving", 65 + (((totalProcessed + savedInThisBatch) * 30) \div msgLen),
             totalProcessed + savedInThisBatch, msgLen))

\* lines 436-466 and 312-332: the first 'saving' event, the batches and the
\* processor calls of the first round
OptStartSaving ==
  /\ UNCHANGED <<bulkVars, batchVars, decVars, mpVars, config, invocations>>
  /\ pc = "optSaving"
  /\ events' = Emit(events, Event("saving", 65, 0, msgLen))
  /\ totalProcessed' = 0
  /\ activeIndex' = 0
  /\ LET batches == sliceChunks(0, msgLen, calculateOptimalBatchSize(msgLen))
         n == Len(batches)
     IN  /\ chunks' = batches
         /\ wTask' = roundStarted([b \in 0 .. (n - 1) |-> IdleTask], 0,
                                  config.MAX_CONCURRENT_BATCHES, n)
         /\ pc' = IF n = 0 THEN "optResolved" ELSE "optRound"
  /\ UNCHANGED <<inputVars, thrown, storeVars, metadata, resumeFrom, decryptCalls,
                 chunkProgress, poolVars, wInbox, mInbox, txFailures>>

\* request.onsuccess of batch b up to the next put at which onProgress is
\* called: the callback of the processor passes the test of line 472 and calls
\* updateProgress
OptPutsSucceed(b) ==
  /\ UNCHANGED <<bulkVars, libVars>>
  /\ wTask[b].phase = "saving"
  /\ wTask[b].savedCount < SliceLen(chunkOf(b))
  /\ LET saved == nextReport(wTask[b].savedCount, SliceLen(chunkOf(b)))
     IN  /\ wTask' = [wTask EXCEPT ![b] = [@ EXCEPT !.savedCount = saved]]
         /\ optUpdateProgress(b, savedInBatch(saved, wTask[b].savedCount))
  /\ UNCHANGED <<inputVars, pc, thrown, storeVars, localVars, chunkProgress, poolVars, wInbox,
                 mInbox, txFailures>>

\* transaction.oncomplete of batch b: every put has succeeded, the promise of
\* saveMessagesBatch resolves and the processor returns
OptBatchCommits(b) ==
  /\ UNCHANGED <<bulkVars, libVars>>
  /\ wTask[b].phase = "saving"
  /\ wTask[b].savedCount = SliceLen(chunkOf(b))
  /\ wTask' = [wTask EXCEPT ![b] = [@ EXCEPT !.phase = "completed"]]
  /\ messagesStore' = messagesStore \cup {chunkOf(b)}
  /\ UNCHANGED <<inputVars, pc, thrown, metaRow, metaWrites, localVars, progressVars, poolVars,
                 wInbox, mInbox, txFailures>>

\* transaction.onerror / onabort of batch b: saveMessagesBatch rejects, so do
\* Promise.all and processBatchQueue, and the catch block is entered (the
\* other batches of the round go on)
OptBatchFails(b) ==
  /\ UNCHANGED <<bulkVars, libVars>>
  /\ wTask[b].phase = "saving"
  /\ txFailures < MaxFailures
  /\ txFailures' = txFailures + 1
  /\ wTask' = [wTask EXCEPT ![b] = [@ EXCEPT !.phase = "errored", !.failed = 1]]
  /\ pc' = IF pc = "optRound" THEN "optCatch" ELSE pc
  /\ thrown' = IF pc = "optRound" THEN "Transaction failed" ELSE thrown
  /\ UNCHANGED <<inputVars, storeVars, localVars, progressVars, poolVars, wInbox, mInbox>>

\* lines 335-341: Promise.all of the round resolves, activeIndex moves on and
\* the next round starts, or the loop ends
OptRoundDone ==
  /\ UNCHANGED <<bulkVars, batchVars, decVars, mpVars, config, invocations>>
  /\ pc = "optRound"
  /\ \A b \in roundOf(activeIndex, config.MAX_CONCURRENT_BATCHES, Len(chunks)) :
       wTask[b].phase = "completed"
  /\ activeIndex' = activeIndex + config.MAX_CONCURRENT_BATCHES
  /\ wTask' = roundStarted(wTask, activeIndex + config.MAX_CONCURRENT_BATCHES,
                           config.MAX_CONCURRENT_BATCHES, Len(chunks))
  /\ pc' = IF activeIndex + config.MAX_CONCURRENT_BATCHES < Len(chunks)
             THEN "optRound" ELSE "optResolved"
  /\ UNCHANGED <<inputVars, thrown, storeVars, localVars, progressVars, poolVars, wInbox,
                 mInbox, txFailures>>

\* lines 485-500: completed is saved and announced
OptComplete ==
  /\ UNCHANGED <<bulkVars, libVars>>
  /\ pc = "optResolved"
  /\ metadata' = completedMetadata(metadata, msgLen)
  /\ saveMetadata(completedMetadata(metadata, msgLen))
  /\ events' = Emit(events, Event("completed", 100, msgLen, msgLen))
  /\ pc' = "returned"
  /\ UNCHANGED <<inputVars, thrown, messagesStore, resumeFrom, chunks, decryptCalls,
                 chunkProgress, totalProcessed, poolVars, workerVars>>

\* lines 502-521: the catch block
OptCatch ==
  /\ UNCHANGED <<bulkVars, libVars>>
  /\ pc = "optCatch"
  /\ saveMetadata(errorMetadata(metaRow, thrown))
  /\ events' = Emit(events, Event("error", 0, Unset, Unset))
  /\ pc' = "rejected"
  /\ UNCHANGED <<inputVars, thrown, messagesStore, localVars, chunkProgress, totalProcessed,
                 poolVars, workerVars>>

\* record counts; CONFIG is the initial one or the one
\* decryptAndStreamToIndexedDBMemoryOptimized sets (lines 538-539)
OptMsgLens == {0, 1, 100, 150, 1150, 2150}
MemoryConfig == [BATCH_SIZE_LARGE |-> 1500, MAX_CONCURRENT_BATCHES |-> 2]

\* the state after line 433: the row is saved with totalMessages set
InitOptimized ==
  /\ entry = "optimized"
  /\ decryptOutcome = "ok"
  /\ msgLen \in OptMsgLens
  /\ workerCount = 1
  /\ startRow = NoMeta
  /\ metaRow = Meta("processing", 0, msgLen, "")
  /\ pc = "optSaving"
  /\ thrown = ""
  /\ messagesStore = {}
  /\ metaWrites = 2
  /\ metadata = Meta("processing", 0, msgLen, "")
  /\ resumeFrom = 0
  /\ chunks = <<>>
  /\ chunkProgress = <<>>
  /\ totalProcessed = 0
  /\ events = [count |-> 0, last |-> NoEvent]
  /\ decryptCalls = 1
  /\ poolState = "none"
  /\ availableWorkers = <<>>
  /\ taskQueue = <<>>
  /\ posted = <<>>
  /\ answered = <<>>
  /\ errorEvents = 0
  /\ wInbox = <<>>
  /\ wTask = <<>>
  /\ mInbox = <<>>
  /\ txFailures = 0
  /\ NoBulkRun
  /\ NoBatchCall
  /\ NoDecryptCall
  /\ NoMsgpackCall
  /\ config \in {InitialConfig, MemoryConfig}
  /\ activeIndex = 0
  /\ invocations = <<>>

NextOptimized ==
  \/ OptStartSaving
  \/ \E b \in ChunkIdx : OptPutsSucceed(b)
  \/ \E b \in ChunkIdx : OptBatchCommits(b)
  \/ \E b \in ChunkIdx : OptBatchFails(b)
  \/ OptRoundDone
  \/ OptComplete
  \/ OptCatch

SpecOptimized == InitOptimized /\ [][NextOptimized]_vars

\* ------------------------------------------------------------------------
\* decryptAndStreamToIndexedDBMemoryOptimized (lines 528-549).  CONFIG is one
\* object of the module, shared by every call; a call goes on at an await
\* while other calls run.
\* ------------------------------------------------------------------------
Invocation(position, originalBatchSize, originalConcurrency, len, batchSize, maxConcurrent) ==
  [pc |-> position, originalBatchSize |-> originalBatchSize,
   originalConcurrency |-> originalConcurrency, len |-> len,
   batchSize |-> batchSize, maxConcurrent |-> maxConcurrent]

\* lines 535-542: the values of CONFIG are kept in the locals of the call, CONFIG
\* is overridden, and decryptAndStreamToIndexedDBOptimized runs up to its first
\* await
MemStart(i) ==
  /\ invocations[i].pc = "idle"
  /\ invocations' = [invocations EXCEPT ![i] =
       [@ EXCEPT !.pc = "decrypting",
                 !.originalBatchSize = config.BATCH_SIZE_LARGE,
                 !.originalConcurrency = config.MAX_CONCURRENT_BATCHES]]
  /\ config' = MemoryConfig
  /\ UNCHANGED <<pipeVars, bulkVars, batchVars, decVars, mpVars, activeIndex>>

\* lines 444 and 463-466: the inner run has the messages and reads its batch
\* size and its concurrency from CONFIG
MemReadsConfig(i) ==
  /\ invocations[i].pc = "decrypting"
  /\ invocations' = [invocations EXCEPT ![i] =
       [@ EXCEPT !.pc = "saving",
                 !.batchSize = calculateOptimalBatchSize(invocations[i].len),
                 !.maxConcurrent = config.MAX_CONCURRENT_BATCHES]]
  /\ UNCHANGED <<pipeVars, bulkVars, batchVars, decVars, mpVars, config, activeIndex>>

\* lines 544-548: the inner run has resolved, or has thrown (while decrypting or
\* while saving); the finally block writes the kept values back
MemFinally(i, outcome) ==
  /\ invocations[i].pc \in {"decrypting", "saving"}
  /\ outcome = "resolved" => invocations[i].pc = "saving"
  /\ invocations' = [invocations EXCEPT ![i] = [@ EXCEPT !.pc = outcome]]
  /\ config' = [BATCH_SIZE_LARGE |-> invocations[i].originalBatchSize,
                MAX_CONCURRENT_BATCHES |-> invocations[i].originalConcurrency]
  /\ UNCHANGED <<pipeVars, bulkVars, batchVars, decVars, mpVars, activeIndex>>

\* the message counts of the snapshots: one below 5000, one in 20000..49999
MemMsgLens == {100, 30000}

InitMemory ==
  /\ NoPipelineRun
  /\ NoBulkRun
  /\ NoBatchCall
  /\ NoDecryptCall
  /\ NoMsgpackCall
  /\ config = InitialConfig
  /\ activeIndex = 0
  /\ \E lens \in [1 .. MaxInvocations -> MemMsgLens] :
       invocations = [i \in 1 .. MaxInvocations |-> Invocation("idle", 0, 0, lens[i], 0, 0)]

NextMemory ==
  \/ \E i \in 1 .. MaxInvocations : MemStart(i)
  \/ \E i \in 1 .. MaxInvocations : MemReadsConfig(i)
  \/ \E i \in 1 .. MaxInvocations : \E o \in {"resolved", "rejected"} : MemFinally(i, o)

SpecMemory == InitMemory /\ [][NextMemory]_vars

\* ========================================================================
\* Properties
\* ========================================================================
StartProcessed == IF startRow.status = "absent" THEN 0 ELSE startRow.processedMessages

Terminal(c) == answered[c] \in {"COMPLETE", "ERROR"}

\* the chunks are exactly the slice <<lo, hi>>, in order, without gap or overlap
ChunksCover(lo, hi) ==
  /\ chunks # <<>>
  /\ chunks[1][1] = lo
  /\ chunks[Len(chunks)][2] = hi
  /\ \A i \in 1 .. Len(chunks) : chunks[i][1] < chunks[i][2]
  /\ \A i \in 1 .. (Len(chunks) - 1) : chunks[i][2] = chunks[i + 1][1]

InTaskQueue(c) == \E i \in 1 .. Len(taskQueue) : taskQueue[i] = c

\* C1: when waitForCompletion resolves, every chunk passed to processChunk has
\* been answered with COMPLETE or ERROR (stated for the state in which the
\* promise has resolved; the answers only accumulate).
C1_ResolvedOnlyWhenAnswered ==
  pc = "resolved" => \A c \in ChunkIdx : Terminal(c)

\* C2 as claimed: whenever cacheDecryptedSnapshotMultiWorker is called and the
\* row at the start has processedMessages = k < N, the pool is given exactly
\* records[k..N-1] and a run that returns leaves processedMessages = N.
C2_ResumeOriginal ==
  (entry = "cache" /\ StartProcessed < msgLen) =>
    /\ poolState # "none" =>
         /\ ChunksCover(StartProcessed, msgLen)
         /\ \A c \in ChunkIdx : posted[c] # -1 \/ InTaskQueue(c)
    /\ pc = "returned" =>
         /\ poolState = "terminated"
         /\ metaRow.processedMessages = msgLen

\* C2 amended: the same for a row whose status at the start is not completed,
\* on either entry point; the returned run also leaves status completed.
C2_ResumeSubmitsSuffix ==
  (startRow.status # "completed" /\ StartProcessed < msgLen) =>
    /\ poolState # "none" =>
         /\ ChunksCover(StartProcessed, msgLen)
         /\ \A c \in ChunkIdx : posted[c] # -1 \/ InTaskQueue(c)
    /\ pc = "returned" =>
         /\ poolState = "terminated"
         /\ metaRow.processedMessages = msgLen
         /\ metaRow.status = "completed"

\* C2 witness: a resumed run (k = 1000 of N = 1150) that returned.
C2_Witness ==
  /\ startRow.status = "processing" /\ startRow.processedMessages = 1000
  /\ msgLen = 1150 /\ pc = "returned" /\ chunks = <<<<1000, 1150>>>>

\* C3: an invocation on a snapshot whose row is completed decrypts nothing,
\* writes no metadata and no message, creates no worker, and emits exactly one
\* event, completed, with the row's processedMessages and totalMessages.
C3_CompletedIsSkipped ==
  startRow.status = "completed" =>
    /\ pc \in {"start", "returned"}
    /\ decryptCalls = 0
    /\ metaWrites = 0 /\ metaRow = startRow
    /\ messagesStore = {}
    /\ poolState = "none"
    /\ pc = "start" => events.count = 0
    /\ pc = "returned" =>
         events = [count |-> 1,
                   last |-> Event("completed", 100, startRow.processedMessages,
                                  startRow.totalMessages)]

\* C3 witness: the skip has happened for a row with 1000 processed messages
\* while the decrypted array has 1150.
C3_Witness ==
  /\ startRow.status = "completed" /\ startRow.processedMessages = 1000
  /\ msgLen = 1150 /\ pc = "returned"

\* C4: in a bulk run, a snapshot whose row was completed when the run started
\* is never downloaded and never decrypted, nothing is staged for it and
\* nothing is written to its records.
C4_CompletedNotPrepared ==
  \A id \in SnapshotIds :
    startRows[id].status = "completed" =>
      /\ downloads[id] = 0
      /\ decrypts[id] = 0
      /\ stagingStore[id] = NoData
      /\ recordStore[id] = {}

\* C11: when the staging of a snapshot has thrown (detail fetch, download,
\* decryption or the write of the staged record), the snapshot's durable
\* metadata row has status error.
C11_StagingFailureRecorded ==
  \A id \in SnapshotIds : prep[id] = "failed" => rows[id].status = "error"

\* the sum of the estimated sizes of the preparations in flight
RECURSIVE SumSizes(_)
SumSizes(ids) ==
  IF ids = {} THEN 0
  ELSE LET id == CHOOSE i \in ids : TRUE IN sizeMbOf(id) + SumSizes(ids \ {id})

BudgetKept ==
  SumSizes(activePreparations) <= PREFETCH_SIZE_LIMIT_MB
    \/ Cardinality(activePreparations) = 1

\* a step that starts preparations leaves them all within the budget, or
\* starts one only while nothing else is in flight
StartsFit ==
  LET new == activePreparations' \ activePreparations
  IN  new # {} =>
        \/ SumSizes(activePreparations') <= PREFETCH_SIZE_LIMIT_MB
        \/ activePreparations' = new /\ Cardinality(new) = 1

\* C12: at every point of a bulk run the preparations in flight are within the
\* 25 MB budget or there is exactly one of them, and a preparation is started
\* only if it fits or nothing else is in flight.
C12_BudgetOrSingle == []BudgetKept /\ [][StartsFit]_vars

\* C12 witness: a snapshot of 30 MB is in flight alone, over the budget, while
\* another snapshot waits to be scheduled.
C12_Witness ==
  /\ Cardinality(activePreparations) = 1
  /\ SumSizes(activePreparations) > PREFETCH_SIZE_LIMIT_MB
  /\ nextToSchedule < totalSnapshots

\* the list of snapshots has arrived and the first schedulePrefetch has run
ListArrived ==
  /\ bpc \notin {"off", "idle", "clearing", "listing"}
  /\ \A id \in SnapshotIds : bulkStatuses[id] # "none"

AllStartedAndExited ==
  /\ nextToSchedule = totalSnapshots
  /\ \A id \in SnapshotIds : prep[id] # "none"
  /\ bpc = "done"

\* C13: when every preparation and every persistence call settles, every
\* snapshot of the list gets its preparation started, also one that alone is
\* over the budget, and the consumer loop exits.
C13_ForwardProgress == ListArrived ~> AllStartedAndExited

\* C13 witness: the run is over with a 30 MB snapshot staged after a snapshot
\* scheduled before it.
C13_Witness ==
  /\ AllStartedAndExited
  /\ \E id \in SnapshotIds :
       id > 1 /\ sizeMbOf(id) > PREFETCH_SIZE_LIMIT_MB /\ prep[id] = "staged"

\* the snapshots whose staging completes in this step, and the queue with them
\* pushed
NewlyStaged == {id \in SnapshotIds : prep[id] # "staged" /\ prep'[id] = "staged"}
QueueAfterStaging ==
  IF NewlyStaged = {}
    THEN stagedSnapshotQueue
    ELSE Append(stagedSnapshotQueue, CHOOSE id \in NewlyStaged : TRUE)
Persisting == bpc \in {"persistStart", "persistBody", "persistSaving"}
HandsOverInOrder ==
  /\ Cardinality(NewlyStaged) <= 1
  /\ Persisting => stagedSnapshotId' = stagedSnapshotId
  /\ (bpc' = "persistStart" /\ bpc # "persistStart") =>
        bpc = "loading" /\ stagedSnapshotId' = stagedSnapshotId
  /\ IF stagedSnapshotQueue' = QueueAfterStaging
       THEN stagedSnapshotId' \in {stagedSnapshotId, 0}
       ELSE /\ ~Persisting
            /\ QueueAfterStaging # <<>>
            /\ stagedSnapshotQueue' = Tail(QueueAfterStaging)
            /\ stagedSnapshotId' = Head(QueueAfterStaging)
            /\ bpc' = "loading"

C15_NothingStagedAfterRun ==
  bpc = "done" => \A id \in SnapshotIds : stagingStore[id] = NoData

\* C16: the staged record of a snapshot is deleted once its persistence call
\* has settled and before the consumer takes the next staged snapshot: the
\* staging store holds at most the snapshots staged and waiting in the queue and
\* the one the consumer is working on
C16_OnlyUnconsumedStaged ==
  \A id \in SnapshotIds :
    stagingStore[id] # NoData =>
      id \in Range(stagedSnapshotQueue) \/ id = stagedSnapshotId

\* the place of a stage in the order downloading, decrypting, processing,
\* saving, completed
StageRank(stage) ==
  CASE stage = "none" -> 0
    [] stage = "downloading" -> 1
    [] stage = "decrypting" -> 2
    [] stage = "processing" -> 3
    [] stage = "saving" -> 4
    [] OTHER -> 5
StageFollows ==
  events'.count > events.count =>
    /\ events.last.stage \notin {"completed", "error"}
    /\ \/ events'.last.stage = "error"
       \/ StageRank(events'.last.stage) >= StageRank(events.last.stage)

\* C17: within one run of the pipeline the stage of an emitted progress event
\* is never before the stage of the event emitted before it (error can follow
\* any stage that is not terminal), and nothing is emitted after an event with
\* stage completed or error
C17_StagesForward == [][StageFollows]_vars

\* the pool of the run exists: updateProgress can be called
PoolRuns == pc \in {"dispatching", "waiting", "resolved"}

\* C18: every progress event has 0 <= progress <= 100, and every saving event
\* has resumeFrom <= processedMessages <= totalMessages, whatever the order in
\* which the PROGRESS messages of the chunks and of their retried attempts are
\* handled
C18_EventsInRange ==
  /\ events.last.progress \in 0 .. 100
  /\ \A i \in 1 .. Len(DecryptEvents) : DecryptEvents[i].progress \in 0 .. 100
  /\ events.last.stage = "saving" =>
        /\ resumeFrom <= events.last.processedMessages
        /\ events.last.processedMessages <= events.last.totalMessages

\* saving events have been emitted for a chunk that failed an attempt and was
\* then written in full by a later one, and for another chunk as well
C18_Witness ==
  /\ PoolRuns
  /\ events.last.stage = "saving"
  /\ events.last.processedMessages > resumeFrom
  /\ \E c \in ChunkIdx :
       /\ wTask[c].failed > 0
       /\ wTask[c].phase = "completed"
       /\ chunkProgress[c] = SliceLen(chunkOf(c))
       /\ \E d \in ChunkIdx : d # c /\ chunkProgress[d] > 0

\* the sum of the counts last reported for the first n chunks
RECURSIVE SumProgress(_, _)
SumProgress(progress, n) ==
  IF n = 0 THEN 0 ELSE SumProgress(progress, n - 1) + progress[n - 1]
AggregateIsSum ==
  PoolRuns => totalProcessed = resumeFrom + SumProgress(chunkProgress, Len(chunks))
LatestCountKept ==
  \A w \in Workers :
    (/\ poolState = "alive"
     /\ Len(mInbox[w]) > 0
     /\ Len(mInbox'[w]) < Len(mInbox[w])
     /\ Head(mInbox[w]).type = "PROGRESS") =>
      /\ chunkProgress' = [chunkProgress EXCEPT ![Head(mInbox[w]).chunkIndex] =
                                                  Head(mInbox[w]).saved]
      /\ events'.last.processedMessages =
           resumeFrom + SumProgress(chunkProgress', Len(chunks))

\* C19: after the PROGRESS messages of the chunks have been handled in any
\* interleaving, the aggregated processed count is resumeFrom plus the sum over
\* the chunks of the count last reported for each; handling a PROGRESS message
\* replaces the count of its chunk only, and the event reports that sum
C19_AggregateOfLatest == []AggregateIsSum /\ [][LatestCountKept]_vars

\* chunks 0 and 1 have both reported, chunk 1 while chunk 0 was not finished
C19_Witness ==
  /\ PoolRuns
  /\ Len(chunks) >= 2
  /\ chunkProgress[1] > 0
  /\ chunkProgress[0] > 0
  /\ chunkProgress[0] < SliceLen(chunkOf(0))
  /\ totalProcessed = chunkProgress[0] + chunkProgress[1]

BatchSettled ==
  /\ (txn.promise = "resolved") <=> (txn.state = "committed")
  /\ txn.promise = "resolved" =>
        /\ txn.completed <= batchTotal
        /\ LastOr(txn.calls, 0) = txn.completed
        /\ batchInput.variant = "worker" => txn.value = txn.completed
  /\ txn.promise = "rejected" => txn.state = "aborted"
FailedPutTolerated == txn'.logged > txn.logged => txn'.promise = txn.promise

\* C21: saveMessagesBatch resolves exactly when its transaction commits, the
\* count it reports is the number of puts that succeeded, it rejects only when
\* the transaction errors or aborts, and a failed put of a single record does
\* not by itself reject the batch
C21_BatchFollowsTransaction == []BatchSettled /\ [][FailedPutTolerated]_vars

\* the stored records of the snapshots other than the one `sid` being written
OthersIn(store, sid) == {r \in store : r[1] # sid}
OthersKept ==
  OthersIn(messagesDb', batchInput.snapshotId) = OthersIn(messagesDb, batchInput.snapshotId)
OneRecordPerPair ==
  \A r1, r2 \in messagesDb : (r1[1] = r2[1] /\ r1[2] = r2[2]) => r1 = r2

\* C22: writing a batch of records of one snapshot leaves every stored record
\* of every other snapshot as it was, also when the snapshots have records with
\* the same id; the store holds one record for a pair (snapshotId, id)
C22_OtherSnapshotsUntouched == []OneRecordPerPair /\ [][OthersKept]_vars

\* the batch is committed: a record it wrote and the untouched record of the
\* other snapshot have the same id
C22_Witness ==
  /\ txn.state = "committed"
  /\ \E r1, r2 \in messagesDb :
       /\ r1[1] = batchInput.snapshotId /\ r1[3] = "new"
       /\ r2[1] # batchInput.snapshotId /\ r2[2] = r1[2] /\ r2[3] = "old"

\* C29: a worker has posted COMPLETE for its chunk only when a put was issued
\* for every record of the chunk and the transaction of the batch has committed
C29_CompleteAfterCommit ==
  txn.posted # <<>> =>
    /\ txn.state = "committed"
    /\ txn.placed = batchTotal
    /\ txn.next > txn.placed
    /\ txn.posted[1].type = "COMPLETE"

\* COMPLETE was posted for a chunk of MaxBatch records, all of them stored
C29_Witness ==
  /\ txn.posted # <<>>
  /\ batchTotal = MaxBatch
  /\ \A i \in 1 .. batchTotal :
       stamped(batchInput.snapshotId, batchInput.messages[i]) \in messagesDb

\* the chunks posted to a worker so far
Dispatched == {c \in DOMAIN posted : posted[c] # -1}
\* the chunks were submitted in index order: the dispatched ones are the first
\* ones, and the queue holds the others in index order
PoolFifo ==
  /\ Dispatched = 0 .. (Cardinality(Dispatched) - 1)
  /\ \A i \in 1 .. Len(taskQueue) : taskQueue[i] = Cardinality(Dispatched) + i - 1
PoolGreedy == taskQueue = <<>> \/ availableWorkers = <<>>

\* C28: while the pool of a run exists, chunks are dispatched in submission
\* order and after every step of the pool (submission, COMPLETE, ERROR, error
\* event) there is never both an available worker and a queued chunk
C28_GreedyFifo == poolState = "alive" => (PoolFifo /\ PoolGreedy)

\* a chunk that had to wait in the queue was dispatched by a terminal message
\* while a further chunk is still queued
C28_Witness ==
  /\ poolState = "alive"
  /\ \E c \in DOMAIN answered : answered[c] # "none"
  /\ \E c \in Dispatched : c >= workerCount
  /\ taskQueue # <<>>

\* C30: decodeMsgpack at offset 0 on the MessagePack encoding of a value x
\* returns x, and the offset behind the encoding
C30_DecodeInvertsEncode ==
  mpOutput # <<>> =>
    /\ mpOutput[1].value = jsValue(mpInput)
    /\ mpOutput[1].offset = Len(encode(mpInput))

\* decryptSnapshot has returned or thrown
Finished == dresult # <<>>
InLog(e) == \E i \in 1 .. Len(dlog) : dlog[i] = e
CryptoStarted(from) ==
  \E i \in from .. Len(dlog) : dlog[i] \in {started("unwrap"), started("decrypt")}
JsonEnvelope == fileSource.kind = "json" /\ fileSource.enc = "complete"
OsnpEnvelope == parseOsnp(fileSource).error = ""
Unparseable == ~JsonEnvelope /\ ~OsnpEnvelope
\* decryptSnapshot has just thrown
Failing == dpc = "done" /\ ~dresult[1].ok

\* C23 as stated: when the bytes are neither a JSON envelope nor an OSNP
\* container, the run fails with an error, and at that point no key unwrap and
\* no symmetric decryption was started and nothing was written to the Record
\* Store (message records and metadata rows)
C23_ParseFailureBeforeAnyWrite ==
  Unparseable =>
    /\ ~CryptoStarted(1)
    /\ dpc = "done" => Failing
    /\ Failing => (messagesStore = {} /\ metaWrites = 0)

\* C23, amended: when the bytes are neither a JSON envelope nor an OSNP
\* container, the run fails with one error, and at that point no key unwrap
\* and no symmetric decryption was started and no message record was written;
\* the metadata row of the snapshot was written once, with status processing
C23_ParseFailureBeforeCrypto ==
  Unparseable =>
    /\ ~CryptoStarted(1)
    /\ messagesStore = {}
    /\ dpc = "done" => Failing
    /\ Failing => (dresult[1].error # "" /\ metaWrites = 1 /\ metaRow.status = "processing")

\* a JSON text with an incomplete enc was tried as JSON envelope and as OSNP
\* container, and decryptSnapshot has thrown
C23_Witness ==
  /\ fileSource.kind = "json" /\ fileSource.enc = "partial"
  /\ Failing
  /\ InLog(failed("fields")) /\ InLog(failed("osnp"))

\* C24: a failed key unwrap or a failed authenticated decryption is the last
\* thing decryptSnapshot does with the bytes, and it is the error thrown
C24_CryptoFailureTerminal ==
  /\ \A i \in 1 .. Len(dlog) :
       dlog[i] \in {failed("unwrap"), failed("decrypt")} => i = Len(dlog)
  /\ (Finished /\ (InLog(failed("unwrap")) \/ InLog(failed("decrypt")))) =>
       /\ ~dresult[1].ok
       /\ dresult[1].error \in {"OperationError: unwrap", "OperationError: decrypt"}

\* the compression flag of the envelope
CompressionFlag ==
  IF fileSource.kind = "json" THEN fileSource.compression
  ELSE IF isGzipFlag(getProperty(parseOsnp(fileSource).header, compressionName)) THEN "gzip"
  ELSE "absent"
\* the step after the authenticated decryption has been taken
Decrypted ==
  /\ InLog(started("decrypt")) /\ ~InLog(failed("decrypt"))
  /\ dpc \notin {"json.finish", "osnp.finish"}
HasGzipMagic(bytes) == Len(bytes) >= 2 /\ SubSeq(bytes, 1, 2) = GZIP_MAGIC

\* C25: the decrypted bytes are decompressed exactly when the compression
\* flag is gzip, or there is no flag and the bytes begin with 0x1f 0x8b
C25_DecompressWhenGzip ==
  Decrypted =>
    (InLog(started("gunzip")) <=>
       \/ CompressionFlag = "gzip"
       \/ CompressionFlag = "absent" /\ HasGzipMagic(fileSource.plain))

\* the bytes after the decompression step of the code
FinalBytes ==
  IF CompressionFlag = "gzip" THEN decompressGzip(fileSource.plain)
  ELSE Unzipped(TRUE, fileSource.plain)

\* C26: when the final bytes are not JSON but MessagePack, decryptSnapshot
\* returns the normalized decoded value, for both envelope shapes
C26_FallbackToMsgpack ==
  (Decrypted /\ Finished /\ FinalBytes.ok /\ jsonParse(FinalBytes.data) = Thrown
     /\ decodeMsgpack(FinalBytes.data, 0).value # Thrown) =>
    /\ dresult[1].ok
    /\ dresult[1].value = normalizeMsgpackValue(decodeMsgpack(FinalBytes.data, 0).value)

\* the conditions on which OSNP parsing rejects the buffer
OsnpRejected ==
  \/ fileSource.size < 32
  \/ fileSource.kind = "json"
  \/ SubSeq(fileSource.buffer, 1, 4) # OSNP_MAGIC
  \/ /\ decodeMsgpack(fileSource.buffer, 9).value = Thrown
     /\ decodeMsgpack(fileSource.buffer, 8).value = Thrown
OsnpStartedAt == CHOOSE i \in 1 .. Len(dlog) : dlog[i] = started("osnp")

\* C27: decryptOsnpSnapshot throws without starting a key unwrap or a
\* decryption when the buffer is shorter than 32 bytes, does not begin with
\* 'OSNP', or its header is decoded neither at offset 9 nor at offset 8; the
\* header is decoded at offset 8 only after decoding at offset 9 has thrown
C27_OsnpFailsClosed ==
  InLog(started("osnp")) =>
    /\ OsnpRejected =>
         (Finished /\ ~dresult[1].ok /\ ~CryptoStarted(OsnpStartedAt))
    /\ \A i \in 1 .. Len(dlog) :
         dlog[i] = started("header@8") =>
           /\ i > 1 /\ dlog[i - 1] = started("header@9")
           /\ decodeMsgpack(fileSource.buffer, 9).value = Thrown

\* a buffer whose header was decoded at offset 9, then at offset 8, and was
\* rejected
C27_Witness ==
  /\ Finished /\ ~dresult[1].ok
  /\ InLog(started("header@9")) /\ InLog(started("header@8"))
  /\ dresult[1].error = "Unsupported msgpack type"

\* C31: in the fully-offloaded variant a chunk whose write failed does not
\* stop the run: from the moment a save worker has posted ERROR for a chunk,
\* the worker gets back into availableWorkers, every chunk is posted to a
\* worker and waitForCompletion returns.
FullChunkFailed == \E c \in ChunkIdx : wTask[c].phase = "errored"

FullRunGoesOn ==
  /\ pc \in {"fullResolved", "returned"}
  /\ \A c \in ChunkIdx : posted[c] # -1

C31_FailedChunkDoesNotStop == FullChunkFailed ~> FullRunGoesOn

\* C32: every 'saving' event of the concurrent-batch variant has
\* 0 <= progress <= 100 and processedMessages <= totalMessages.
C32_SavingEventsInRange ==
  (entry = "optimized" /\ events.last.stage = "saving") =>
    /\ 0 <= events.last.progress
    /\ events.last.progress <= 100
    /\ events.last.processedMessages <= events.last.totalMessages

\* C33: when the multi-worker pipeline has saved status completed, every
\* record it submitted to the pool in that run is in the Record Store; in
\* particular completed is not saved after a chunk ended with ERROR.
CompletedSaved == pc = "returned" /\ metaWrites > 0 /\ metaRow.status = "completed"

C33_CompletedMeansAllWritten ==
  (CompletedSaved /\ entry \in {"single", "cache"}) =>
    \A c \in ChunkIdx : answered[c] # "ERROR" /\ chunkOf(c) \in messagesStore

\* C34: pool accounting.  availableWorkers never holds a worker index twice
\* and never more than workerCount entries, a worker listed as available has
\* no chunk in flight, and no worker has more than one chunk in flight.
InFlightAt(w) == {c \in ChunkIdx : posted[c] = w /\ answered[c] = "none"}

C34_PoolAccounting ==
  poolState = "alive" =>
    /\ \A i, j \in 1 .. Len(availableWorkers) :
         availableWorkers[i] = availableWorkers[j] => i = j
    /\ Len(availableWorkers) <= workerCount
    /\ \A i \in 1 .. Len(availableWorkers) : InFlightAt(availableWorkers[i]) = {}
    /\ \A w \in Workers : Cardinality(InFlightAt(w)) <= 1

\* C35: with workers that answer every SAVE_BATCH, every chunk passed to
\* processChunk is eventually posted to a worker, and exactly once: a step
\* that posts a chunk delivers it to one worker, and a chunk that has been
\* posted is never delivered again.
RECURSIVE Occurrences(_, _)
Occurrences(seq, c) ==
  IF seq = <<>> THEN 0
  ELSE (IF Head(seq) = c THEN 1 ELSE 0) + Occurrences(Tail(seq), c)

RECURSIVE Deliveries(_, _, _)
Deliveries(inbox, c, n) ==
  IF n = 0 THEN 0 ELSE Occurrences(inbox[n - 1], c) + Deliveries(inbox, c, n - 1)

AllPosted == \A c \in ChunkIdx : posted[c] # -1

PostedOnce ==
  \A c \in ChunkIdx :
    /\ posted[c] # -1 =>
         /\ posted'[c] = posted[c]
         /\ Deliveries(wInbox', c, workerCount) <= Deliveries(wInbox, c, workerCount)
    /\ (posted[c] = -1 /\ posted'[c] # -1) =>
         /\ Deliveries(wInbox', c, workerCount) = 1
         /\ Occurrences(wInbox'[posted'[c]], c) = 1
    /\ posted'[c] = -1 => Deliveries(wInbox', c, workerCount) = 0

C35_PostedExactlyOnce == <>AllPosted /\ [][PostedOnce]_vars

\* C35 witness: more chunks than workers, every chunk posted, and one of the
\* workers has been handed a second chunk.
C35_Witness ==
  /\ entry = "none"
  /\ AllPosted
  /\ Len(chunks) > workerCount
  /\ \E c, d \in ChunkIdx : c # d /\ posted[c] = posted[d]

\* C36: worker protocol.  For every SAVE_BATCH the save worker posts exactly
\* one terminal message for the chunk, COMPLETE or ERROR and never both, and
\* no message for the chunk after it: every chunk's onmessage call ends, the
\* step that ends it posts one terminal message as its last message (COMPLETE
\* when the write was committed, ERROR when it was given up), no other step
\* posts a terminal message, and once the call has ended nothing more is
\* posted for the chunk.
Ended(task) == task.phase \in {"completed", "errored"}

\* the messages a step appends to the channel of worker w
Appended(w) ==
  IF Len(mInbox'[w]) > Len(mInbox[w])
    THEN SubSeq(mInbox'[w], Len(mInbox[w]) + 1, Len(mInbox'[w]))
    ELSE <<>>

MessagesOf(seq, c) == SelectSeq(seq, LAMBDA m : m.chunkIndex = c)
TerminalsOf(seq, c) ==
  SelectSeq(seq, LAMBDA m : m.chunkIndex = c /\ m.type \in {"COMPLETE", "ERROR"})

OneTerminal ==
  \A c \in ChunkIdx :
    posted[c] # -1 =>
      LET now == MessagesOf(Appended(posted[c]), c)
          terminals == TerminalsOf(Appended(posted[c]), c)
      IN  /\ Ended(wTask[c]) => (now = <<>> /\ wTask'[c] = wTask[c])
          /\ (~Ended(wTask[c]) /\ ~Ended(wTask'[c])) => terminals = <<>>
          /\ (~Ended(wTask[c]) /\ Ended(wTask'[c])) =>
               /\ Len(terminals) = 1
               /\ now[Len(now)] = terminals[1]
               /\ terminals[1].type =
                    (IF wTask'[c].phase = "completed" THEN "COMPLETE" ELSE "ERROR")

AllEnded == \A c \in ChunkIdx : Ended(wTask[c])

Saving == pc \in {"dispatching", "waiting", "resolved"}

StartValueOrTotal ==
  (entry \in {"single", "cache"} /\ metaWrites > 0) =>
    \/ metaRow.processedMessages = StartProcessed
    \/ metaRow.processedMessages = metaRow.totalMessages

StartValueWhileSaving == Saving => metaRow.processedMessages = StartProcessed

RowKeptWhileSaving == (Saving /\ Saving') => metaRow' = metaRow

C37_NoPartialProgress ==
  [](StartValueOrTotal /\ StartValueWhileSaving) /\ [][RowKeptWhileSaving]_vars

\* C37 witness: a run resumed at 1000 of 1150 records whose only chunk has
\* been answered with COMPLETE while the stored row still says 1000.
C37_Witness ==
  /\ pc = "waiting"
  /\ StartProcessed = 1000
  /\ msgLen = 1150
  /\ \E c \in ChunkIdx : answered[c] = "COMPLETE"
  /\ metaRow.processedMessages = 1000

\* the consumer loop of handleBulkLoadAll is over: by its break, or by an
\* exception that the outer catch took
LoopExited == bpc \in {"finalClear", "done"}

\* a staged snapshot is taken when the consumer shifts it off the queue
Untaken == Range(stagedSnapshotQueue)
InFlight == {id \in SnapshotIds : prep[id] \in {"fetching", "downloading", "decrypting", "saving"}}

\* getNextStagedSnapshotId resolves to null (the break of the loop) in this step
ReturnsNull == bpc \notin {"loading", "listing", "finalClear", "done"} /\ bpc' = "finalClear"
NullOnlyWhenDrained ==
  ReturnsNull =>
    /\ stagedSnapshotQueue' = <<>>
    /\ nextToSchedule' >= totalSnapshots
    /\ activePreparations' = {}

\* a parked consumer has nothing to take and something to wait for
NoLostWakeUp ==
  bpc = "parked" =>
    /\ waitingResolvers = 1
    /\ stagedSnapshotQueue = <<>>
    /\ activePreparations # {}

\* C38: when the consumer loop has exited, every snapshot whose staging
\* succeeded has been taken by the consumer (none waits in the staged queue and
\* no preparation is still in flight that could stage one); null is returned
\* only with the queue empty, everything scheduled and nothing in flight; a
\* parked consumer is woken by the preparation that settles.
C38_EveryStagedTaken ==
  LoopExited => Untaken = {} /\ InFlight = {}

\* the keys of the batch, and the store after the batch is written to it once
BatchKeys ==
  {<<batchInput.snapshotId, batchInput.messages[i]>> : i \in 1 .. batchTotal}
writtenOnce(store) ==
  {r \in store : <<r[1], r[2]>> \notin BatchKeys}
    \cup {stamped(batchInput.snapshotId, batchInput.messages[i]) : i \in 1 .. batchTotal}

\* getMessageCount: index.count(IDBKeyRange.only(snapshotId))
getMessageCount(store, snapshotId) == Cardinality({r \in store : r[1] = snapshotId})

\* a call that commits leaves the store as one write of the batch leaves it,
\* and once a call has committed no later call changes the store or the count
CommitWritesOnce ==
  (txn.state = "active" /\ txn'.state = "committed") => messagesDb' = writtenOnce(messagesDb)
RewriteChangesNothing ==
  txn.commits >= 1 =>
    /\ messagesDb' = messagesDb
    /\ getMessageCount(messagesDb', batchInput.snapshotId)
         = getMessageCount(messagesDb, batchInput.snapshotId)
CountOfKeys ==
  txn.commits >= 1 =>
    getMessageCount(messagesDb, batchInput.snapshotId)
      = Cardinality({k \in BatchKeys \cup {<<r[1], r[2]>> : r \in messagesDb} :
                       k[1] = batchInput.snapshotId})

\* C39: writing the same chunk of records of a snapshot again (the retry of a
\* failed transaction, or a later run) leaves the store as writing it once
\* does: the store holds one record for a key (snapshotId, id) and the record
\* count of the snapshot does not grow.
C39_RewriteIdempotent ==
  [](OneRecordPerPair /\ CountOfKeys) /\ [][CommitWritesOnce /\ RewriteChangesNothing]_vars

\* the batch, with an id repeated in it, was committed, then failed, then
\* committed again over the record it replaced
C39_Witness ==
  /\ txn.state = "committed"
  /\ txn.attempt = 3
  /\ txn.commits = 2
  /\ batchTotal = MaxBatch
  /\ Cardinality(BatchKeys) < batchTotal
  /\ getMessageCount(messagesDb, batchInput.snapshotId) = 2

\* every call of decryptAndStreamToIndexedDBMemoryOptimized that was started has
\* finished, and at least one was started
InvocationFinished(i) == invocations[i].pc \in {"resolved", "rejected"}
AllInvocationsFinished ==
  /\ \A i \in DOMAIN invocations : invocations[i].pc = "idle" \/ InvocationFinished(i)
  /\ \E i \in DOMAIN invocations : InvocationFinished(i)

\* C40: when every invocation of decryptAndStreamToIndexedDBMemoryOptimized
\* that was started has finished (resolved or rejected, overlapping or not),
\* BATCH_SIZE_LARGE and MAX_CONCURRENT_BATCHES of CONFIG have the values they
\* had before the first invocation started.
C40_ConfigRestored == AllInvocationsFinished => config = InitialConfig

\* the sum of the lengths of the first n chunks
RECURSIVE SumLen(_)
SumLen(n) == IF n = 0 THEN 0 ELSE SumLen(n - 1) + SliceLen(chunks[n])

\* C5: for every N >= 0 and W >= 1 the chunks computed with the optimal chunk
\* size have sizes that sum to N, chunk i covers [i*size, min((i+1)*size, N)),
\* consecutive chunks are adjacent (so they are disjoint and leave no gap) and
\* no chunk is empty.
C5_ChunksPartition ==
  pc = "chunked" =>
    LET size == calculateOptimalChunkSize(msgLen, workerCount)
        n == Len(chunks)
    IN  /\ SumLen(n) = msgLen
        /\ \A i \in 1 .. n :
             /\ chunks[i] = <<(i - 1) * size, Min(i * size, msgLen)>>
             /\ chunks[i][1] < chunks[i][2]
        /\ \A i \in 1 .. (n - 1) : chunks[i][2] = chunks[i + 1][1]
        /\ n = 0 <=> msgLen = 0
        /\ n > 0 => chunks[1][1] = 0 /\ chunks[n][2] = msgLen

\* C5 witness: a count that is no multiple of the chunk size was chunked: the
\* last of several chunks is shorter than the others.
C5_Witness ==
  /\ pc = "chunked" /\ msgLen = 100001 /\ workerCount = 3
  /\ Len(chunks) = 6
  /\ chunks[6] = <<83335, 100001>>

\* C6: once a chunk has been answered with ERROR (retries exhausted), the pool
\* still gets to the drained state -- every worker back in availableWorkers,
\* the queue empty -- with every other chunk dispatched and its write ended
\* (committed, or failed on its own).
ErrorAnswered ==
  /\ pc \in {"dispatching", "waiting"}
  /\ \E c \in ChunkIdx : answered[c] = "ERROR"

DrainedAndSettled ==
  /\ poolState = "alive"
  /\ poolLooksDrained
  /\ \A c \in ChunkIdx :
       /\ posted[c] # -1
       /\ Terminal(c)
       /\ answered[c] = "COMPLETE" => wTask[c].phase = "completed"

C6_ErrorIsConfined == ErrorAnswered ~> DrainedAndSettled

\* C6 witness: two chunks, one answered ERROR, the other written in full, and
\* the pool drained.
C6_Witness ==
  /\ DrainedAndSettled
  /\ Len(chunks) = 2
  /\ answered[0] = "ERROR" /\ answered[1] = "COMPLETE"
  /\ <<chunks[2][1], chunks[2][2]>> \in messagesStore

\* C7: a chunk's write is attempted at most 3 times, a new attempt only follows
\* a failed one, a success ends the attempts, and ERROR is reported exactly
\* after the third failure.
ErrorPosted(c) ==
  \/ answered[c] = "ERROR"
  \/ /\ posted[c] # -1
     /\ \E i \in 1 .. Len(mInbox[posted[c]]) :
          mInbox[posted[c]][i].type = "ERROR" /\ mInbox[posted[c]][i].chunkIndex = c

C7_AtMostThreeAttempts ==
  \A c \in ChunkIdx :
    /\ wTask[c].attempt <= 3
    /\ wTask[c].phase \in {"saving", "completed"} => wTask[c].failed = wTask[c].attempt - 1
    /\ wTask[c].phase = "errored" => wTask[c].failed = 3 /\ wTask[c].attempt = 3
    /\ ErrorPosted(c) <=> wTask[c].phase = "errored"

\* C7 witness: a chunk was given up after three failed attempts and its ERROR
\* message was posted.
C7_Witness ==
  \E c \in ChunkIdx :
    /\ wTask[c].phase = "errored" /\ wTask[c].failed = 3 /\ ErrorPosted(c)

C9_ProcessedAtMostTotal ==
  (metaWrites > 0 /\ metaRow.totalMessages # Unset)
    => metaRow.processedMessages <= metaRow.totalMessages

\* C10: when the invocation has rejected (and already when the inner function
\* has rejected into the outer one), the row has status error and the message
\* of the error that is re-raised, which is the error that occurred.
OccurredError ==
  IF decryptOutcome = "badformat"
    THEN "Invalid snapshot format: missing messages array" ELSE decryptOutcome

====
